---- MODULE Spec2Model ----
(***************************************************************************)
(* The Priority ("emergency") chain of MSMWSL-blockchain: the transaction  *)
(* pool, the block and chain, the validator group, and the three-phase     *)
(* PrePrepare / Prepare / Commit vote protocol of EmergencyNode, wired as  *)
(* the driver (run_dualchain.ps1, the embedded Go main) wires them: ONE    *)
(* EmergencyBlockchain (chain and pool) and ONE ValidatorGroup shared by   *)
(* every EmergencyNode.                                                    *)
(* Every node owns a ReputationManager (reputation.go), whose Interaction  *)
(* log is fed by the commit handler and read by ComputeReputation.         *)
(*                                                                         *)
(* Modelling conventions                                                   *)
(*  - vehicle ids are 1..NumVehicles, in sort.Strings order;               *)
(*  - a Go string is a tuple: Str(s) for a literal, Sha256(x) for a digest *)
(*    (SHA-256 is taken to be injective), a transaction id is a sequence   *)
(*    of characters (numbers) so that "txIDs += tx.ID" is \o;              *)
(*  - float64 urgencies and reputations are small naturals; inside the     *)
(*    reputation package a float64 is an exact fraction <<n, d>>, with     *)
(*    <<1, 0>>, <<-1, 0>> and <<0, 0>> for +Inf, -Inf and NaN;             *)
(*  - every "go peer.ReceiveMessage(msg)" is one in-flight message, that   *)
(*    is delivered at any later time, in any order.                        *)
(***************************************************************************)
EXTENDS Integers, Sequences, FiniteSets, Bags, TLC

(***************************************************************************)
(* Bounds of the model and constants of the program.                       *)
(***************************************************************************)
NumVehicles == 5      \* vehicles in the data set
MaxRounds == 1        \* rounds the driver runs
MaxTxPerRound == 2    \* emergency transactions generated in one round
MaxTime == 1          \* the clock stops advancing here
MaxUrgency == 2       \* urgencies are 1..MaxUrgency
MaxReputation == 2    \* reputations are 0..MaxReputation
MaxK == 6             \* k of a direct GetTopKTransactions call
MaxChain == 3         \* blocks of the chain that direct AddBlock calls build
MaxSelects == 1       \* direct SelectValidators calls
MaxSends == 2         \* messages sent by a member whose steps are not modelled
MaxRound == 11        \* direct IncrementRound calls stop at this round
MaxPenalties == 1     \* direct PenalizeInactiveValidators calls after a select
MaxLog == 2           \* Interactions added to a log by direct AddInteraction calls
MaxComputes == 1      \* direct ComputeReputation calls between two AddInteraction calls
MaxProposals == 2     \* direct ProposeEmergencyBlock calls in a row

GroupSize == 4        \* validatorGroupSize
ActivePeriod == 10    \* NewValidatorGroup(validatorGroupSize, 10)
BlockSize == 5        \* NewEmergencyBlockchain(urgencyCfg, 5, ...)

VehicleIDs == 1 .. NumVehicles

(***************************************************************************)
(* Go helpers.                                                             *)
(***************************************************************************)
\* Go integer division truncates toward zero.
GoDiv(a, b) == IF a >= 0 THEN a \div b ELSE -((-a) \div b)

Str(s) == <<"str", s>>
Sha256(x) == <<"sha256", x>>

Range(s) == {s[i] : i \in 1 .. Len(s)}

\* a Go map: a function whose DOMAIN is the set of keys present
MapGet(m, k, dflt) == IF k \in DOMAIN m THEN m[k] ELSE dflt
MapPut(m, k, v) == [x \in (DOMAIN m) \cup {k} |-> IF x = k THEN v ELSE m[x]]
MapDelete(m, k) == [x \in (DOMAIN m) \ {k} |-> m[x]]
EmptyMap == [x \in {} |-> {}]

(***************************************************************************)
(* emergency/transaction.go                                                *)
(***************************************************************************)
\* NewEmergencyTransaction: the urgency, E * exp(omega*theta), is an input
NewEmergencyTransaction(id, vehicleID, arrivalTime, urgency) ==
    [ID |-> id, VehicleID |-> vehicleID, ArrivalTime |-> arrivalTime,
     UrgencyDegree |-> urgency]

AddTransaction(pool, tx) == Append(pool, tx)

\* mutant: the pass also swaps neighbours of equal urgency
RECURSIVE BubblePassSwapsEqual(_, _, _)
BubblePassSwapsEqual(s, j, last) ==
    IF j > last THEN s
    ELSE IF s[j].UrgencyDegree <= s[j + 1].UrgencyDegree
         THEN BubblePassSwapsEqual([s EXCEPT ![j] = s[j + 1], ![j + 1] = s[j]],
                                   j + 1, last)
         ELSE BubblePassSwapsEqual(s, j + 1, last)

\* one inner pass of the bubble sort: j = 0 .. last-1 (1-based: 1 .. last)
RECURSIVE BubblePass(_, _, _)
BubblePass(s, j, last) ==
    IF j > last THEN s
    ELSE IF s[j].UrgencyDegree < s[j + 1].UrgencyDegree
         THEN BubblePass([s EXCEPT ![j] = s[j + 1], ![j + 1] = s[j]], j + 1, last)
         ELSE BubblePass(s, j + 1, last)

\* the outer loop: i = 0 .. len-2, the pass runs j over 0 .. len-i-2
RECURSIVE BubbleSort(_, _)
BubbleSort(s, i) ==
    IF i >= Len(s) - 1 THEN s
    ELSE BubbleSort(BubblePass(s, 1, Len(s) - i - 1), i + 1)

RemoveTransactions(pool, txs) ==
    LET toRemove == {txs[i].ID : i \in 1 .. Len(txs)}
    IN  SelectSeq(pool, LAMBDA tx : tx.ID \notin toRemove)

\* GetTopKTransactions: [result, pool] (k >= 0; a negative k panics)
GetTopKTransactions(pool, k) ==
    IF Len(pool) = 0 THEN [result |-> <<>>, pool |-> pool]
    ELSE LET sorted == BubbleSort(pool, 0)
             kk == IF k > Len(sorted) THEN Len(sorted) ELSE k
             result == SubSeq(sorted, 1, kk)
         IN  [result |-> result, pool |-> RemoveTransactions(pool, result)]

(***************************************************************************)
(* emergency/block.go                                                      *)
(***************************************************************************)
RECURSIVE ConcatIDs(_)
ConcatIDs(txs) ==
    IF txs = <<>> THEN <<>> ELSE Head(txs).ID \o ConcatIDs(Tail(txs))

CalculateMerkleRoot(txs) ==
    IF Len(txs) = 0 THEN Str("") ELSE Sha256(<<"ids">> \o ConcatIDs(txs))

RECURSIVE CalculateTotalUrgency(_)
CalculateTotalUrgency(txs) ==
    IF txs = <<>> THEN 0
    ELSE Head(txs).UrgencyDegree + CalculateTotalUrgency(Tail(txs))

CalculateHash(b) ==
    Sha256(<<"hdr", b.Index, b.Timestamp, b.PrevHash, b.MerkleRoot>>)

\* mutant: NewEmergencyBlock leaving the total urgency at zero
NewEmergencyBlockUnsummed(index, prevHash, transactions, validatorIDs, timestamp) ==
    LET b0 == [Index |-> index, Timestamp |-> timestamp, PrevHash |-> prevHash,
               Hash |-> Str(""), MerkleRoot |-> CalculateMerkleRoot(transactions),
               ValidatorIDs |-> validatorIDs, Transactions |-> transactions,
               TotalUrgency |-> 0]
    IN  [b0 EXCEPT !.Hash = CalculateHash(b0)]

NewEmergencyBlock(index, prevHash, transactions, validatorIDs, timestamp) ==
    LET b0 == [Index |-> index, Timestamp |-> timestamp, PrevHash |-> prevHash,
               Hash |-> Str(""), MerkleRoot |-> CalculateMerkleRoot(transactions),
               ValidatorIDs |-> validatorIDs, Transactions |-> transactions,
               TotalUrgency |-> CalculateTotalUrgency(transactions)]
    IN  [b0 EXCEPT !.Hash = CalculateHash(b0)]

GenesisBlock ==
    [Index |-> 0, Timestamp |-> 0, PrevHash |-> Str("0"), Hash |-> Str("genesis"),
     MerkleRoot |-> Str(""), ValidatorIDs |-> <<>>, Transactions |-> <<>>,
     TotalUrgency |-> 0]

GetLatestBlock(chain) == chain[Len(chain)]

AddBlock(chain, block) == Append(chain, block)

\* mutant: VerifyBlock without the total-urgency check
VerifyBlockNoUrgency(chain, block) ==
    LET latestBlock == GetLatestBlock(chain)
    IN  IF block.Index # latestBlock.Index + 1 THEN FALSE
        ELSE IF block.PrevHash # latestBlock.Hash THEN FALSE
        ELSE IF block.MerkleRoot # CalculateMerkleRoot(block.Transactions) THEN FALSE
        ELSE IF block.Hash # CalculateHash(block) THEN FALSE
        ELSE TRUE

VerifyBlock(chain, block) ==
    LET latestBlock == GetLatestBlock(chain)
    IN  IF block.Index # latestBlock.Index + 1 THEN FALSE
        ELSE IF block.PrevHash # latestBlock.Hash THEN FALSE
        ELSE IF block.MerkleRoot # CalculateMerkleRoot(block.Transactions) THEN FALSE
        ELSE IF block.Hash # CalculateHash(block) THEN FALSE
        ELSE IF block.TotalUrgency # CalculateTotalUrgency(block.Transactions) THEN FALSE
        ELSE TRUE

(***************************************************************************)
(* emergency/validator.go                                                  *)
(***************************************************************************)
\* the candidates that have a reputation manager, with their reputations
NodeReputation(nodeIDs, rms, rep) ==
    LET kept == SelectSeq(nodeIDs, LAMBDA id : id \in rms)
    IN  [i \in 1 .. Len(kept) |-> [ID |-> kept[i], Reputation |-> rep[kept[i]]]]

MaxOf(S) == CHOOSE x \in S : \A y \in S : y <= x

\* sort.Slice with less(i, j) = s[i].Reputation > s[j].Reputation.  sort.Slice
\* is not stable: every arrangement in non-increasing reputation is a
\* possible outcome.  idx is the set of positions of s still to be placed.
RECURSIVE SortSliceFrom(_, _)
SortSliceFrom(s, idx) ==
    IF idx = {} THEN {<<>>}
    ELSE LET top == MaxOf({s[i].Reputation : i \in idx})
         IN  UNION {{<<s[i]>> \o t : t \in SortSliceFrom(s, idx \ {i})} :
                     i \in {j \in idx : s[j].Reputation = top}}

SortSlice(s) == SortSliceFrom(s, 1 .. Len(s))

\* mutant: SelectValidators without the sort
SelectValidatorsUnsorted(nodeIDs, rms, rep) ==
    LET s == NodeReputation(nodeIDs, rms, rep)
    IN  {IF Len(s) < GroupSize THEN s ELSE SubSeq(s, 1, GroupSize)}

\* SelectValidators: the possible values of vg.Validators
SelectValidators(nodeIDs, rms, rep) ==
    {IF Len(sorted) < GroupSize THEN sorted ELSE SubSeq(sorted, 1, GroupSize) :
        sorted \in SortSlice(NodeReputation(nodeIDs, rms, rep))}

\* mutant: the group still counts as active in round ActivePeriod
IsActiveInclusive(currentRound) == currentRound <= ActivePeriod

IsActive(currentRound) == currentRound < ActivePeriod

IncrementRound(currentRound) == currentRound + 1

NeedRefresh(validators, currentRound) ==
    ~IsActive(currentRound) \/ Len(validators) = 0

\* the members that are not listed as inactive, in their order
ActiveValidators(validators, inactiveValidators) ==
    SelectSeq(validators, LAMBDA v : v.ID \notin inactiveValidators)

\* mutant: PenalizeInactiveValidators appending every candidate
PenalizeInactiveValidatorsUncapped(validators, inactiveValidators, rms, newCandidates, rep) ==
    LET activeValidators == ActiveValidators(validators, inactiveValidators)
        needed == GroupSize - Len(activeValidators)
    IN  IF needed > 0 /\ Len(newCandidates) > 0
        THEN {activeValidators \o sorted :
                 sorted \in SortSlice(NodeReputation(newCandidates, rms, rep))}
        ELSE {activeValidators}

\* mutant: PenalizeInactiveValidators without the sort of the candidates
PenalizeInactiveValidatorsUnsorted(validators, inactiveValidators, rms, newCandidates, rep) ==
    LET activeValidators == ActiveValidators(validators, inactiveValidators)
        needed == GroupSize - Len(activeValidators)
        s == NodeReputation(newCandidates, rms, rep)
    IN  IF needed > 0 /\ Len(newCandidates) > 0
        THEN {activeValidators \o SubSeq(s, 1, IF Len(s) < needed THEN Len(s) ELSE needed)}
        ELSE {activeValidators}

\* PenalizeInactiveValidators: the possible values of vg.Validators.  The
\* inactive ids are used as a set; the candidates are sorted with sort.Slice
\* (not stable), and a candidate is not compared with the remaining members.
PenalizeInactiveValidators(validators, inactiveValidators, rms, newCandidates, rep) ==
    LET activeValidators == ActiveValidators(validators, inactiveValidators)
        needed == GroupSize - Len(activeValidators)
    IN  IF needed > 0 /\ Len(newCandidates) > 0
        THEN {activeValidators
                 \o SubSeq(sorted, 1, IF Len(sorted) < needed THEN Len(sorted) ELSE needed) :
                 sorted \in SortSlice(NodeReputation(newCandidates, rms, rep))}
        ELSE {activeValidators}

GetValidatorIDs(validators) == [i \in 1 .. Len(validators) |-> validators[i].ID]

IsValidatorOf(validators, nodeID) ==
    \E i \in 1 .. Len(validators) : validators[i].ID = nodeID

GetSize(validators) == Len(validators)

\* mutant: SelectProposer returning the first validator
SelectProposerFirst(validators) ==
    IF Len(validators) = 0 THEN 0 ELSE validators[1].ID

\* SelectProposer: the first validator of the highest reputation (a later one
\* replaces the candidate only when strictly higher); 0 stands for nil
SelectProposer(validators) ==
    IF Len(validators) = 0 THEN 0
    ELSE LET top == MaxOf({validators[i].Reputation : i \in 1 .. Len(validators)})
             first == CHOOSE i \in 1 .. Len(validators) :
                        /\ validators[i].Reputation = top
                        /\ \A j \in 1 .. i - 1 : validators[j].Reputation # top
         IN  validators[first].ID

(***************************************************************************)
(* reputation/reputation.go.  A float64 is an exact fraction <<n, d>> in   *)
(* lowest terms with d >= 0; <<1, 0>> and <<-1, 0>> are +Inf and -Inf and  *)
(* <<0, 0>> is NaN, with the IEEE rules for them.  Rounding is not         *)
(* modelled.  Of the two trajectories of an Interaction one is empty or at *)
(* rest, so that every cosine similarity is 0.                             *)
(***************************************************************************)
Abs(n) == IF n < 0 THEN -n ELSE n

Sign(n) == IF n < 0 THEN -1 ELSE IF n = 0 THEN 0 ELSE 1

RECURSIVE GCD(_, _)
GCD(a, b) == IF b = 0 THEN a ELSE GCD(b, a % b)

Rat(n, d) ==
    IF d = 0 THEN <<Sign(n), 0>>
    ELSE LET g == GCD(Abs(n), Abs(d))
         IN  <<(Sign(d) * n) \div g, Abs(d) \div g>>

Float64(n) == <<n, 1>>
Zero == Float64(0)
One == Float64(1)
NaN == <<0, 0>>

IsNaN(a) == a = NaN
Finite(a) == a[2] # 0

RNeg(a) == <<-a[1], a[2]>>

RAdd(a, b) ==
    IF IsNaN(a) \/ IsNaN(b) THEN NaN
    ELSE IF ~Finite(a) /\ ~Finite(b) THEN (IF a = b THEN a ELSE NaN)
    ELSE IF ~Finite(a) THEN a
    ELSE IF ~Finite(b) THEN b
    ELSE Rat(a[1] * b[2] + b[1] * a[2], a[2] * b[2])

RSub(a, b) == RAdd(a, RNeg(b))

RMul(a, b) ==
    IF IsNaN(a) \/ IsNaN(b) THEN NaN ELSE Rat(a[1] * b[1], a[2] * b[2])

RDiv(a, b) ==
    IF IsNaN(a) \/ IsNaN(b) THEN NaN
    ELSE IF ~Finite(b) THEN (IF Finite(a) THEN Zero ELSE NaN)
    ELSE IF ~Finite(a) THEN (IF b[1] < 0 THEN RNeg(a) ELSE a)
    ELSE Rat(a[1] * b[2], a[2] * b[1])

\* a < b; false when one of them is NaN
RLess(a, b) ==
    /\ ~IsNaN(a)
    /\ ~IsNaN(b)
    /\ IF Finite(a) /\ Finite(b) THEN a[1] * b[2] < b[1] * a[2]
       ELSE a # b /\ (a = <<-1, 0>> \/ b = <<1, 0>>)

\* the sum of f over the keys S (the order of a Go map range is not fixed;
\* the exact sum does not depend on it)
RECURSIVE RSum(_, _)
RSum(f, S) ==
    IF S = {} THEN Zero
    ELSE LET x == CHOOSE y \in S : TRUE
         IN  RAdd(f[x], RSum(f, S \ {x}))

RECURSIVE IntPow(_, _)
IntPow(b, e) == IF e = 0 THEN 1 ELSE b * IntPow(b, e - 1)

\* math.Pow(delta, -epsilon) for delta > 0 and a natural epsilon
Pow(delta, epsilon) == Rat(1, IntPow(delta, epsilon))

\* math.Exp(x): exact at 0.  Elsewhere e^x is not a fraction: it is
\* represented by 1 + x for x > 0 and by 1 / (1 - x) for x < 0, which like e^x
\* is positive, increasing, above 1 for x > 0 and below 1 for x < 0.
Exp(x) ==
    IF IsNaN(x) THEN NaN
    ELSE IF RLess(x, Zero) THEN RDiv(One, RSub(One, x))
    ELSE RAdd(One, x)

InitialReputationValue == Rat(1, 2)
NormalTxWeight == One
EmergencyTxBaseWeight == Float64(3)
UrgencyImpactFactor == Rat(4, 5)
MaxWeightMultiplier == Float64(8)

CalculateTransactionWeight(txType, urgencyDegree) ==
    IF txType = "EmergencyTransaction"
    THEN LET weight == RMul(EmergencyTxBaseWeight,
                            RAdd(One, RMul(UrgencyImpactFactor, Float64(urgencyDegree))))
         IN  IF RLess(MaxWeightMultiplier, weight) THEN MaxWeightMultiplier ELSE weight
    ELSE NormalTxWeight

\* aggregateByPair: the keys of agg, the keys of agg[to], and agg[to][from]
Targets(log) == {log[i].To : i \in 1 .. Len(log)}

Evaluators(log, to) == {log[i].From : i \in {j \in 1 .. Len(log) : log[j].To = to}}

RECURSIVE SumOfField(_, _, _)
SumOfField(log, idx, field) ==
    IF idx = {} THEN 0
    ELSE LET i == CHOOSE j \in idx : TRUE
         IN  log[i][field] + SumOfField(log, idx \ {i}, field)

\* mutant: aggregateByPair taking the timestamp and the trajectories of
\* every later Interaction of the pair
AggregateStepTakingLast(exist, inter) ==
    [exist EXCEPT !.PosEvents = @ + inter.PosEvents,
                  !.NegEvents = @ + inter.NegEvents,
                  !.Timestamp = inter.Timestamp,
                  !.TrajUser = inter.TrajUser,
                  !.TrajProvider = inter.TrajProvider]

\* aggregateByPair: the else branch, exist being agg[inter.To][inter.From]
AggregateStep(exist, inter) ==
    LET summed == [exist EXCEPT !.PosEvents = @ + inter.PosEvents,
                                !.NegEvents = @ + inter.NegEvents]
    IN  IF inter.Timestamp > exist.Timestamp
        THEN [summed EXCEPT !.Timestamp = inter.Timestamp,
                            !.TrajUser = inter.TrajUser,
                            !.TrajProvider = inter.TrajProvider]
        ELSE summed

\* aggregateByPair: agg[to][from] after the first n Interactions of the log
\* (<<>> while the map has no such entry)
RECURSIVE AggregateUpTo(_, _, _, _)
AggregateUpTo(log, to, from, n) ==
    IF n = 0 THEN <<>>
    ELSE LET exist == AggregateUpTo(log, to, from, n - 1)
             inter == log[n]
         IN  IF inter.To # to \/ inter.From # from THEN exist
             ELSE IF exist = <<>> THEN inter
             ELSE AggregateStep(exist, inter)

AggregateByPair(log, to, from) == AggregateUpTo(log, to, from, Len(log))

\* computeTrajectorySimilarity when prov is empty or all its vectors are
\* zero: cosineSimilarity returns 0 three times (sb == 0)
ComputeTrajectorySimilarity(user, prov) == Zero

\* the opinion of one pair without the factor (1 - I) of T and D
DirectOpinionUndiscounted(inter, theta, weight) ==
    LET totalEvents == Float64(inter.PosEvents + inter.NegEvents)
        Ii == RDiv(Float64(2), RAdd(Float64(2), totalEvents))
        alpha == RMul(RSub(One, theta), Float64(inter.PosEvents))
        beta == RMul(theta, Float64(inter.NegEvents))
        sumEvt == RAdd(alpha, beta)
    IN  [T |-> IF RLess(Zero, sumEvt) THEN RDiv(alpha, sumEvt) ELSE Zero,
         D |-> IF RLess(Zero, sumEvt) THEN RDiv(beta, sumEvt) ELSE Zero,
         I |-> Ii,
         Weight |-> weight]

\* computeDirectOpinions, lines 198-231: the opinion of one pair
DirectOpinion(inter, theta, weight) ==
    LET totalEvents == Float64(inter.PosEvents + inter.NegEvents)
        Ii == RDiv(Float64(2), RAdd(Float64(2), totalEvents))
        alpha == RMul(RSub(One, theta), Float64(inter.PosEvents))
        beta == RMul(theta, Float64(inter.NegEvents))
        sumEvt == RAdd(alpha, beta)
    IN  [T |-> IF RLess(Zero, sumEvt) THEN RDiv(RMul(RSub(One, Ii), alpha), sumEvt)
               ELSE Zero,
         D |-> IF RLess(Zero, sumEvt) THEN RDiv(RMul(RSub(One, Ii), beta), sumEvt)
               ELSE Zero,
         I |-> Ii,
         Weight |-> weight]

\* computeDirectOpinions: direct[to][from], and the theta of every target
ComputeDirectOpinions(log, cfg, nowv) ==
    [to \in Targets(log) |->
        LET froms == Evaluators(log, to)
            inter == [from \in froms |-> AggregateByPair(log, to, from)]
            cnt == [from \in froms |->
                       Float64(inter[from].PosEvents + inter[from].NegEvents)]
            avgCnt == RDiv(RSum(cnt, froms), Float64(Cardinality(froms)))
            weight ==
                [from \in froms |->
                    LET Fi == RDiv(cnt[from], avgCnt)
                        delta == nowv - inter[from].Timestamp
                        TIM == IF delta <= 0 THEN cfg.Eta
                               ELSE RMul(cfg.Eta, Pow(delta, cfg.Epsilon))
                        sim == ComputeTrajectorySimilarity(inter[from].TrajUser,
                                                          inter[from].TrajProvider)
                        baseWeight == RAdd(RAdd(RMul(cfg.Rho1, Fi), RMul(cfg.Rho2, TIM)),
                                           RMul(cfg.Rho3, sim))
                    IN  RMul(baseWeight,
                             CalculateTransactionWeight(inter[from].TxType,
                                                        inter[from].UrgencyDegree))]
            errNum == RSum([from \in froms |->
                               RMul(weight[from], Float64(inter[from].NegEvents))], froms)
            errDen == RSum(weight, froms)
            theta == IF errDen = Zero THEN Zero
                     ELSE RDiv(cfg.Mu, RAdd(One, Exp(RDiv(errNum, errDen))))
        IN  [from \in froms |-> DirectOpinion(inter[from], theta, weight[from])]]

\* direct[to][from], the zero value when the map has no such entry
DirectAt(direct, to, from) ==
    IF to \in DOMAIN direct /\ from \in DOMAIN direct[to] THEN direct[to][from]
    ELSE [T |-> Zero, D |-> Zero, I |-> Zero, Weight |-> Zero]

\* the keys of direct[last] (none when direct has no such key)
Neighbours(direct, last) == IF last \in DOMAIN direct THEN DOMAIN direct[last] ELSE {}

\* computeIndirectOpinions: the paths dfs collects from source to target, of
\* at most hopCount = 2 edges, each node a key of direct[] of the one before
Paths(direct, source, target) ==
    (IF target \in Neighbours(direct, source) THEN {<<source, target>>} ELSE {})
    \cup {<<source, m, target>> :
            m \in {y \in Neighbours(direct, source) \ {source, target} :
                      target \in Neighbours(direct, y)}}

\* the discounting along the edges i .. of path; acc is T, D, I and w
RECURSIVE Discount(_, _, _, _)
Discount(direct, path, i, acc) ==
    IF i > Len(path) - 1 THEN acc
    ELSE LET d == DirectAt(direct, path[i + 1], path[i])
         IN  Discount(direct, path, i + 1,
                      [T |-> RMul(acc.T, d.T),
                       D |-> RMul(acc.T, d.D),
                       I |-> RAdd(RAdd(acc.D, acc.I), RMul(acc.T, d.I)),
                       w |-> RMul(acc.w, d.Weight)])

\* indirect[target][source], for a source that has a path to the target
IndirectOpinion(direct, source, target) ==
    LET paths == Paths(direct, source, target)
        end == [p \in paths |->
                   Discount(direct, p, 1, [T |-> One, D |-> Zero, I |-> Zero, w |-> One])]
        sumW == RSum([p \in paths |-> end[p].w], paths)
        aggT == RSum([p \in paths |-> RMul(end[p].T, end[p].w)], paths)
        aggD == RSum([p \in paths |-> RMul(end[p].D, end[p].w)], paths)
        aggI == RSum([p \in paths |-> RMul(end[p].I, end[p].w)], paths)
    IN  IF RLess(Zero, sumW)
        THEN [T |-> RDiv(aggT, sumW), D |-> RDiv(aggD, sumW), I |-> RDiv(aggI, sumW)]
        ELSE [T |-> aggT, D |-> aggD, I |-> aggI]

ComputeIndirectOpinions(direct) ==
    [target \in DOMAIN direct |->
        [source \in {s \in DOMAIN direct \ {target} : Paths(direct, s, target) # {}} |->
            IndirectOpinion(direct, source, target)]]

\* fuseOpinions(dir, ind)
FuseOpinions(dir, ind) ==
    LET evaluators == DOMAIN dir
        sources == DOMAIN ind
        sumW == RSum([e \in evaluators |-> dir[e].Weight], evaluators)
        sumTdir == RSum([e \in evaluators |-> RMul(dir[e].T, dir[e].Weight)], evaluators)
        sumDdir == RSum([e \in evaluators |-> RMul(dir[e].D, dir[e].Weight)], evaluators)
        sumIdir == RSum([e \in evaluators |-> RMul(dir[e].I, dir[e].Weight)], evaluators)
        Tdir == IF RLess(Zero, sumW) THEN RDiv(sumTdir, sumW) ELSE Zero
        Ddir == IF RLess(Zero, sumW) THEN RDiv(sumDdir, sumW) ELSE Zero
        Idir == IF RLess(Zero, sumW) THEN RDiv(sumIdir, sumW) ELSE Zero
        len == Float64(Cardinality(sources))
        Tind == RDiv(RSum([x \in sources |-> ind[x].T], sources), len)
        Dind == RDiv(RSum([x \in sources |-> ind[x].D], sources), len)
        Iind == RDiv(RSum([x \in sources |-> ind[x].I], sources), len)
        k == RAdd(RAdd(RMul(Idir, Iind), RMul(Tind, Idir)), RMul(Dind, Idir))
    IN  IF sources = {} THEN [T |-> Tdir, D |-> Ddir, I |-> Idir]
        ELSE [T |-> RDiv(RAdd(RMul(Tdir, Iind), RMul(Tind, Idir)), k),
              D |-> RDiv(RAdd(RMul(Ddir, Iind), RMul(Dind, Idir)), k),
              I |-> RDiv(RMul(Idir, Iind), k)]

\* ReputationManager.ComputeReputation(target, now) over the Interactions log
ComputeReputation(log, cfg, target, nowv) ==
    IF target \notin Targets(log) THEN InitialReputationValue
    ELSE LET direct == ComputeDirectOpinions(log, cfg, nowv)
             indirect == ComputeIndirectOpinions(direct)
             final == FuseOpinions(direct[target], indirect[target])
         IN  RAdd(final.T, RMul(cfg.Gamma, final.I))

(***************************************************************************)
(* The state.                                                              *)
(***************************************************************************)
VARIABLES
    Validators,          \* ValidatorGroup.Validators (one shared group)
    CurrentRound,        \* ValidatorGroup.CurrentRound
    IsValidator,         \* EmergencyNode.IsValidator, per node
    Chain,               \* EmergencyBlockchain.Chain (one shared chain)
    TxPool,              \* EmergencyBlockchain.TxPool.transactions (shared)
    prePrepareReceived,  \* per node: block hash -> PrePrepare message
    prepareVotes,        \* per node: block hash -> set of voter ids
    commitVotes,         \* per node: block hash -> set of voter ids
    msgs,                \* bag of messages whose goroutine has not run yet
    now,                 \* the clock, time.Now()
    r,                   \* the driver's round
    pc,                  \* the driver's position in the round
    txi,                 \* emergency transactions generated in this round
    role,                \* per node: "runs" (the model takes its steps), "silent"
                         \* (it takes none), "byzantine", "summarised" (a correct
                         \* node of which only the sends are modelled),
                         \* "announcer" (it announces a malformed block), or
                         \* "absent" (the vehicle is not in the data set)
    sent,                \* bag of the messages sent by the nodes that do not run
    appendedBy,          \* history: per node, the blocks it has appended
    proposed,            \* history: the blocks ProposeEmergencyBlock announced
    lastDrain,           \* history: the last direct GetTopKTransactions or
                         \* ProposeEmergencyBlock call
    lastSelect,          \* history: the last direct SelectValidators call
    lastVerify,          \* history: the last direct VerifyBlock call
    interactions,        \* per node: ReputationManager.interactions of the manager
                         \* the node holds (every node has its own)
    lastManagerCall,     \* history: the last direct call on a ReputationManager
    lastGroupCall,       \* history: the last direct call on the validator group
                         \* other than SelectValidators, and what was called
                         \* since the last SelectValidators
    phases,              \* history: per node, the phases it has passed for a
                         \* block hash: "EndorsedSent" (handlePrePrepare verified
                         \* the announced block and broadcast the Prepare) and
                         \* "CommittedSent" (handlePrepare broadcast the Commit)
    holding              \* per node: the ReceiveMessage call that holds en.mutex
                         \* (its message, and the chain as it was when the mutex
                         \* was taken), or Free; in the specifications other than
                         \* SpecLock a handler runs in one step and the mutex is
                         \* always Free

vars == <<Validators, CurrentRound, IsValidator, Chain, TxPool, prePrepareReceived,
          prepareVotes, commitVotes, msgs, now, r, pc, txi, role, sent,
          appendedBy, proposed, lastDrain, lastSelect, lastVerify, lastGroupCall,
          interactions, lastManagerCall, phases, holding>>

groupVars == <<Validators, CurrentRound, IsValidator>>
voteVars == <<prePrepareReceived, prepareVotes, commitVotes>>
faultVars == <<role, sent>>
historyVars == <<lastDrain, lastSelect, lastVerify, lastGroupCall, lastManagerCall>>

NoCall == [op |-> "none", n |-> 0]

\* en.mutex is not held
Free == [msg |-> <<>>, chain |-> <<>>]

\* no call on the validator group since the last SelectValidators: incs counts
\* the IncrementRound calls and n the PenalizeInactiveValidators calls
NoGroupCall == [op |-> "none", n |-> 0, incs |-> 0]

\* the reputations ComputeReputation returns at the first refresh of the
\* consensus runs: all distinct, vehicle 1 the highest
InitialReputation == [n \in VehicleIDs |-> NumVehicles - n]

InitState ==
    /\ Validators = <<>>
    /\ CurrentRound = 0
    /\ IsValidator = [n \in VehicleIDs |-> FALSE]
    /\ Chain = <<GenesisBlock>>
    /\ TxPool = <<>>
    /\ prePrepareReceived = [n \in VehicleIDs |-> EmptyMap]
    /\ prepareVotes = [n \in VehicleIDs |-> EmptyMap]
    /\ commitVotes = [n \in VehicleIDs |-> EmptyMap]
    /\ msgs = EmptyBag
    /\ now = 0
    /\ r = 0
    /\ sent = EmptyBag
    /\ pc = "refresh"
    /\ txi = 0
    /\ appendedBy = [n \in VehicleIDs |-> {}]
    /\ proposed = {}
    /\ lastDrain = NoCall
    /\ lastSelect = NoCall
    /\ lastVerify = NoCall
    /\ lastGroupCall = NoGroupCall
    /\ lastManagerCall = NoCall
    /\ interactions = [n \in VehicleIDs |-> <<>>]
    /\ phases = [n \in VehicleIDs |-> {}]
    /\ holding = [n \in VehicleIDs |-> Free]

(***************************************************************************)
(* EmergencyNode: the message handlers.                                    *)
(***************************************************************************)
Message(type, block, from, to) ==
    [Type |-> type, BlockHash |-> block.Hash, Block |-> block, From |-> from, To |-> to]

MessageFor(type, hash, block, from, to) ==
    [Type |-> type, BlockHash |-> hash, Block |-> block, From |-> from, To |-> to]

\* BroadcastToValidators: one goroutine per peer that is a validator
BroadcastToValidators(en, type, hash, block) ==
    SetToBag({MessageFor(type, hash, block, en, p) :
                p \in {q \in VehicleIDs : q # en /\ IsValidator[q]}})

FaultTolerance(N) == GoDiv(N - 1, 3)

\* node en passes a phase for the hash of msg; from is the sender of the
\* announcement for "EndorsedSent" and the node itself for "CommittedSent"
Passed(en, phase, msg, from) ==
    [phases EXCEPT ![en] = @ \cup {[phase |-> phase, hash |-> msg.BlockHash,
                                     block |-> msg.Block, from |-> from]}]

\* mutant: the Prepare tally waits for the Commit quorum
RequiredPrepareVotesQuorum(N) == 2 * FaultTolerance(N) + 1

RequiredPrepareVotes(N) == FaultTolerance(N) + 1

\* mutant: the Commit tally stops at the Prepare threshold
RequiredCommitVotesWeak(N) == FaultTolerance(N) + 1

RequiredCommitVotes(N) == 2 * FaultTolerance(N) + 1

\* mutant: handlePrePrepare without the VerifyBlock guard
HandlePrePrepareUnverified(en, msg, rest) ==
    IF ~IsValidator[en]
    THEN /\ msgs' = rest
         /\ UNCHANGED <<prePrepareReceived, phases>>
    ELSE /\ prePrepareReceived' =
                [prePrepareReceived EXCEPT ![en] = MapPut(@, msg.BlockHash, msg)]
         /\ phases' = Passed(en, "EndorsedSent", msg, msg.From)
         /\ msgs' = rest (+) BroadcastToValidators(en, "Prepare", msg.BlockHash, msg.Block)

\* mutant: handlePrePrepare without the IsValidator guard
HandlePrePrepareOnAnyNode(seen, en, msg, rest) ==
    IF ~VerifyBlock(seen, msg.Block)
    THEN /\ msgs' = rest
         /\ UNCHANGED <<prePrepareReceived, phases>>
    ELSE /\ prePrepareReceived' =
                [prePrepareReceived EXCEPT ![en] = MapPut(@, msg.BlockHash, msg)]
         /\ phases' = Passed(en, "EndorsedSent", msg, msg.From)
         /\ msgs' = rest (+) BroadcastToValidators(en, "Prepare", msg.BlockHash, msg.Block)

\* handlePrePrepare at node en; rest is the bag of the other pending messages
\* and seen the chain that VerifyBlock reads
HandlePrePrepareOn(seen, en, msg, rest) ==
    IF ~IsValidator[en] \/ ~VerifyBlock(seen, msg.Block)
    THEN /\ msgs' = rest
         /\ UNCHANGED <<prePrepareReceived, phases>>
    ELSE /\ prePrepareReceived' =
                [prePrepareReceived EXCEPT ![en] = MapPut(@, msg.BlockHash, msg)]
         /\ phases' = Passed(en, "EndorsedSent", msg, msg.From)
         /\ msgs' = rest (+) BroadcastToValidators(en, "Prepare", msg.BlockHash, msg.Block)

\* handlePrePrepare when no other goroutine is inside the chain
HandlePrePrepare(en, msg, rest) == HandlePrePrepareOn(Chain, en, msg, rest)

\* mutant: a repeated vote starts the tally of the Prepares again
HandlePrepareRestarting(en, msg, rest) ==
    /\ UNCHANGED <<prePrepareReceived, commitVotes, Chain, appendedBy>>
    /\ IF ~IsValidator[en]
       THEN /\ msgs' = rest
            /\ UNCHANGED <<prepareVotes, phases>>
       ELSE LET seen == MapGet(prepareVotes[en], msg.BlockHash, {})
                votes == IF msg.From \in seen THEN {msg.From} ELSE seen \cup {msg.From}
            IN  /\ prepareVotes' =
                       [prepareVotes EXCEPT ![en] = MapPut(@, msg.BlockHash, votes)]
                /\ IF Cardinality(votes) >= RequiredPrepareVotes(GetSize(Validators))
                   THEN /\ msgs' = rest (+)
                            BroadcastToValidators(en, "Commit", msg.BlockHash, msg.Block)
                        /\ phases' = Passed(en, "CommittedSent", msg, en)
                   ELSE /\ msgs' = rest
                        /\ UNCHANGED phases

\* handlePrepare at node en
HandlePrepare(en, msg, rest) ==
    /\ UNCHANGED <<prePrepareReceived, commitVotes, Chain, appendedBy>>
    /\ IF ~IsValidator[en]
       THEN /\ msgs' = rest
            /\ UNCHANGED <<prepareVotes, phases>>
       ELSE LET votes == MapGet(prepareVotes[en], msg.BlockHash, {}) \cup {msg.From}
            IN  /\ prepareVotes' =
                       [prepareVotes EXCEPT ![en] = MapPut(@, msg.BlockHash, votes)]
                /\ IF Cardinality(votes) >= RequiredPrepareVotes(GetSize(Validators))
                   THEN /\ msgs' = rest (+)
                            BroadcastToValidators(en, "Commit", msg.BlockHash, msg.Block)
                        /\ phases' = Passed(en, "CommittedSent", msg, en)
                   ELSE /\ msgs' = rest
                        /\ UNCHANGED phases

\* mutant: recordEmergencyInteractions adding one Interaction for the block
RecordEmergencyInteractionsOnce(en, block, honest) ==
    IF ~IsValidator[en] \/ Len(block.Transactions) = 0 THEN <<>>
    ELSE <<[From |-> en,
            To |-> block.Transactions[1].VehicleID,
            PosEvents |-> IF honest[1] THEN 1 ELSE 0,
            NegEvents |-> IF honest[1] THEN 0 ELSE 1,
            Timestamp |-> now,
            TrajUser |-> <<>>,
            TrajProvider |-> <<>>,
            TxType |-> "EmergencyTransaction",
            UrgencyDegree |-> block.Transactions[1].UrgencyDegree]>>

\* recordEmergencyInteractions at node en: the Interactions it adds to its
\* manager; honest[i] is the outcome of "rand.Float64() < 0.9" for the i-th
\* transaction.  The trajectories of the Interaction are empty.
RecordEmergencyInteractions(en, block, honest) ==
    IF ~IsValidator[en] THEN <<>>
    ELSE [i \in 1 .. Len(block.Transactions) |->
            [From |-> en,
             To |-> block.Transactions[i].VehicleID,
             PosEvents |-> IF honest[i] THEN 1 ELSE 0,
             NegEvents |-> IF honest[i] THEN 0 ELSE 1,
             Timestamp |-> now,
             TrajUser |-> <<>>,
             TrajProvider |-> <<>>,
             TxType |-> "EmergencyTransaction",
             UrgencyDegree |-> block.Transactions[i].UrgencyDegree]]

\* mutant: handleCommit leaving the Prepare tally of the appended hash behind
HandleCommitOnKeepingPrepares(seen, en, msg, rest, outcomes) ==
    /\ msgs' = rest
    /\ UNCHANGED phases
    /\ LET votes == MapGet(commitVotes[en], msg.BlockHash, {}) \cup {msg.From}
       IN  IF Cardinality(votes) >= RequiredCommitVotes(GetSize(Validators))
           THEN /\ Chain' = AddBlock(seen, msg.Block)
                /\ appendedBy' = [appendedBy EXCEPT ![en] = @ \cup {msg.Block}]
                /\ prePrepareReceived' =
                       [prePrepareReceived EXCEPT ![en] = MapDelete(@, msg.BlockHash)]
                /\ commitVotes' =
                       [commitVotes EXCEPT ![en] = MapDelete(@, msg.BlockHash)]
                /\ \E honest \in [1 .. Len(msg.Block.Transactions) -> outcomes] :
                      interactions' =
                          [interactions EXCEPT ![en] =
                              @ \o RecordEmergencyInteractions(en, msg.Block, honest)]
                /\ UNCHANGED prepareVotes
           ELSE /\ commitVotes' =
                       [commitVotes EXCEPT ![en] = MapPut(@, msg.BlockHash, votes)]
                /\ UNCHANGED <<Chain, appendedBy, prePrepareReceived, prepareVotes,
                               interactions>>

\* handleCommit at node en; outcomes are the possible results of the random
\* draws of recordEmergencyInteractions and seen is the chain that AddBlock
\* reads
HandleCommitOn(seen, en, msg, rest, outcomes) ==
    /\ msgs' = rest
    /\ UNCHANGED phases
    /\ LET votes == MapGet(commitVotes[en], msg.BlockHash, {}) \cup {msg.From}
       IN  IF Cardinality(votes) >= RequiredCommitVotes(GetSize(Validators))
           THEN /\ Chain' = AddBlock(seen, msg.Block)
                /\ appendedBy' = [appendedBy EXCEPT ![en] = @ \cup {msg.Block}]
                /\ prePrepareReceived' =
                       [prePrepareReceived EXCEPT ![en] = MapDelete(@, msg.BlockHash)]
                /\ prepareVotes' =
                       [prepareVotes EXCEPT ![en] = MapDelete(@, msg.BlockHash)]
                /\ commitVotes' =
                       [commitVotes EXCEPT ![en] = MapDelete(@, msg.BlockHash)]
                /\ \E honest \in [1 .. Len(msg.Block.Transactions) -> outcomes] :
                      interactions' =
                          [interactions EXCEPT ![en] =
                              @ \o RecordEmergencyInteractions(en, msg.Block, honest)]
           ELSE /\ commitVotes' =
                       [commitVotes EXCEPT ![en] = MapPut(@, msg.BlockHash, votes)]
                /\ UNCHANGED <<Chain, appendedBy, prePrepareReceived, prepareVotes,
                               interactions>>

\* handleCommit when no other goroutine is inside the chain
HandleCommit(en, msg, rest, outcomes) == HandleCommitOn(Chain, en, msg, rest, outcomes)

\* the nodes that run the code and take their turn
Running(en) == role[en] = "runs"

Pending(en, type) ==
    {m \in BagToSet(msgs) : m.To = en /\ m.Type = type}

\* ReceiveMessage, case PrePrepare
ReceivePrePrepare(en) ==
    /\ Running(en)
    /\ \E m \in Pending(en, "PrePrepare") :
          HandlePrePrepare(en, m, msgs (-) SetToBag({m}))
    /\ UNCHANGED <<prepareVotes, commitVotes, Chain, appendedBy>>
    /\ UNCHANGED <<groupVars, TxPool, now, r, pc, txi, faultVars, proposed, historyVars,
                   interactions, holding>>

\* ReceiveMessage, case Prepare
ReceivePrepare(en) ==
    /\ Running(en)
    /\ \E m \in Pending(en, "Prepare") :
          HandlePrepare(en, m, msgs (-) SetToBag({m}))
    /\ UNCHANGED <<groupVars, TxPool, now, r, pc, txi, faultVars, proposed, historyVars,
                   interactions, holding>>

\* ReceiveMessage, case Commit, the random draws falling in outcomes
ReceiveCommitDrawing(en, outcomes) ==
    /\ Running(en)
    /\ \E m \in Pending(en, "Commit") :
          HandleCommit(en, m, msgs (-) SetToBag({m}), outcomes)
    /\ UNCHANGED <<groupVars, TxPool, now, r, pc, txi, faultVars, proposed, historyVars,
                   holding>>

\* ReceiveMessage, case Commit; the consensus specifications follow the
\* draws that find the transaction honest
ReceiveCommit(en) == ReceiveCommitDrawing(en, {TRUE})

(***************************************************************************)
(* EmergencyNode: proposing a block and admitting a transaction.           *)
(***************************************************************************)
\* ProposeEmergencyBlock without the two early returns on an empty pool
ProposeEmergencyBlockUnguarded(en) ==
    LET drained == GetTopKTransactions(TxPool, BlockSize)
        latestBlock == GetLatestBlock(Chain)
        newBlock == NewEmergencyBlock(latestBlock.Index + 1, latestBlock.Hash,
                                      drained.result, GetValidatorIDs(Validators), now)
        prePrepareMsg == Message("PrePrepare", newBlock, en, en)
    IN  IF ~IsValidator[en]
        THEN UNCHANGED <<TxPool, msgs, prePrepareReceived, proposed, phases>>
        ELSE /\ TxPool' = drained.pool
             /\ proposed' = proposed \cup {newBlock}
             /\ HandlePrePrepare(en, prePrepareMsg,
                    msgs (+) BroadcastToValidators(en, "PrePrepare",
                                                   newBlock.Hash, newBlock))

\* ProposeEmergencyBlock at node en; the block is stamped with the clock
ProposeEmergencyBlock(en) ==
    LET drained == GetTopKTransactions(TxPool, BlockSize)
        latestBlock == GetLatestBlock(Chain)
        newBlock == NewEmergencyBlock(latestBlock.Index + 1, latestBlock.Hash,
                                      drained.result, GetValidatorIDs(Validators), now)
        prePrepareMsg == Message("PrePrepare", newBlock, en, en)
    IN  IF ~IsValidator[en] \/ Len(TxPool) = 0
        THEN UNCHANGED <<TxPool, msgs, prePrepareReceived, proposed, phases>>
        ELSE /\ TxPool' = drained.pool
             /\ IF Len(drained.result) = 0
                THEN UNCHANGED <<msgs, prePrepareReceived, proposed, phases>>
                ELSE /\ proposed' = proposed \cup {newBlock}
                     /\ HandlePrePrepare(en, prePrepareMsg,
                            msgs (+) BroadcastToValidators(en, "PrePrepare",
                                                           newBlock.Hash, newBlock))

\* AddEmergencyTransaction at one node: into the blockchain the node holds
AddEmergencyTransaction(pool, en, tx) == AddTransaction(pool, tx)

(***************************************************************************)
(* The driver: one round is refresh, generate, propose, increment.         *)
(***************************************************************************)
VehicleSeq == [i \in 1 .. NumVehicles |-> i]

\* the vehicles of the data set: a vehicle that is "absent" has no node
Fleet == {n \in VehicleIDs : role[n] # "absent"}

\* vehicleIDs, after sort.Strings
FleetSeq == SelectSeq(VehicleSeq, LAMBDA n : n \in Fleet)

\* step 3: the validator group is selected in round 0 and when it needs a
\* refresh, and every node then updates its validator status
DriverRefresh(rep) ==
    /\ pc = "refresh"
    /\ pc' = "generate"
    /\ txi' = 0
    /\ IF r = 0 \/ NeedRefresh(Validators, CurrentRound)
       THEN \E v \in SelectValidators(FleetSeq, Fleet, rep) :
               /\ Validators' = v
               /\ CurrentRound' = 0
               /\ IsValidator' = [n \in VehicleIDs |-> IsValidatorOf(v, n)]
       ELSE UNCHANGED groupVars
    /\ UNCHANGED <<phases, holding, Chain, TxPool, voteVars, msgs, now, r, faultVars, appendedBy,
                   proposed, historyVars,
                   interactions>>

\* the loop "for _, node := range emergencyNodes { node.AddEmergencyTransaction(tx) }"
RECURSIVE BroadcastTransaction(_, _, _)
BroadcastTransaction(pool, nodes, tx) ==
    IF nodes = {} THEN pool
    ELSE LET en == CHOOSE n \in nodes : TRUE
         IN  BroadcastTransaction(AddEmergencyTransaction(pool, en, tx), nodes \ {en}, tx)

\* step 4: numEmergencyTx = 1 + rand.Intn(3) transactions, each
\* "ETx-<r>-<sender>-<i>", arriving now, admitted through every node; the clock
\* advances by one of ticks; counts are the values of numEmergencyTx explored
DriverGenerate(senders, urgencies, ticks, counts) ==
    /\ pc = "generate"
    /\ \E sender \in senders, urgency \in urgencies, tick \in ticks :
          /\ now + tick <= MaxTime
          /\ now' = now + tick
          /\ TxPool' = BroadcastTransaction(TxPool, Fleet,
                          NewEmergencyTransaction(<<r, sender, txi>>, sender,
                                                  now + tick, urgency))
    /\ txi' = txi + 1
    /\ \E numEmergencyTx \in counts :
          /\ txi + 1 <= numEmergencyTx
          /\ pc' = IF txi + 1 < numEmergencyTx THEN "generate" ELSE "propose"
    /\ UNCHANGED <<phases, holding, groupVars, Chain, voteVars, msgs, r, faultVars, appendedBy,
                   proposed, historyVars,
                   interactions>>

\* step 5: the proposer of the group proposes
DriverPropose ==
    /\ pc = "propose"
    /\ pc' = "increment"
    /\ LET proposer == SelectProposer(Validators)
       IN  IF GetSize(Validators) > 0 /\ proposer # 0 /\ Running(proposer)
           THEN ProposeEmergencyBlock(proposer)
           ELSE UNCHANGED <<TxPool, msgs, prePrepareReceived, proposed, phases>>
    /\ UNCHANGED <<groupVars, Chain, prepareVotes, commitVotes, now, r, txi, faultVars,
                   appendedBy, historyVars, interactions, holding>>

\* validatorGroup.IncrementRound() and the end of the round
DriverIncrement ==
    /\ pc = "increment"
    /\ CurrentRound' = CurrentRound + 1
    /\ r' = r + 1
    /\ pc' = IF r + 1 < MaxRounds THEN "refresh" ELSE "done"
    /\ UNCHANGED <<phases, holding, Validators, IsValidator, Chain, TxPool, voteVars, msgs, now, txi,
                   faultVars, appendedBy, proposed, historyVars,
                   interactions>>

\* a committee member that is not the proposer: the one of the lowest reputation
LastMember == GroupSize

\* a vehicle that is not in the committee: the one of the lowest reputation
Outsider == NumVehicles

Roles(lastRole, outsiderRole) ==
    [n \in VehicleIDs |-> IF n = LastMember THEN lastRole
                          ELSE IF n = Outsider THEN outsiderRole ELSE "runs"]

NextHonest ==
    \/ DriverRefresh(InitialReputation)
    \/ DriverGenerate({NumVehicles}, {1}, {0}, {1})
    \/ DriverPropose
    \/ DriverIncrement
    \/ \E en \in VehicleIDs : ReceivePrePrepare(en)
    \/ \E en \in VehicleIDs : ReceivePrepare(en)
    \/ \E en \in VehicleIDs : ReceiveCommit(en)

(***************************************************************************)
(* SpecLive: one committee member is silent, every goroutine that can run  *)
(* eventually runs.                                                        *)
(***************************************************************************)
InitLive ==
    /\ InitState
    /\ role = Roles("silent", "runs")

\* a goroutine that is started runs: every message sent to a running node is
\* eventually handled
Fairness ==
    /\ WF_vars(\E en \in VehicleIDs : ReceivePrePrepare(en))
    /\ WF_vars(\E en \in VehicleIDs : ReceivePrepare(en))
    /\ WF_vars(\E en \in VehicleIDs : ReceiveCommit(en))

SpecLive == InitLive /\ [][NextHonest]_vars /\ Fairness

(***************************************************************************)
(* SpecByz: one committee member is Byzantine.  It runs no code; it sends  *)
(* messages under its own id to the other committee members, one at a      *)
(* time, at most MaxByzantineSends of them.                                *)
(***************************************************************************)
ForgedTransaction == NewEmergencyTransaction(<<0, 0, 0>>, LastMember, 0, 1)

\* a well-formed block on the genesis block that no honest node proposes
ForgedBlock ==
    NewEmergencyBlock(1, GenesisBlock.Hash, <<ForgedTransaction>>, <<>>, 0)

\* the same with a total urgency that is not the sum
MalformedBlock == [ForgedBlock EXCEPT !.TotalUrgency = @ + 1]

\* what the Byzantine member sends: a Prepare or a Commit for a proposed
\* block, and a Commit for the hash of a proposed block that carries the
\* forged block
ByzantineMessages(z, en) ==
    {MessageFor("Prepare", b.Hash, b, z, en) : b \in proposed}
    \cup {MessageFor("Commit", b.Hash, b, z, en) : b \in proposed}
    \cup {MessageFor("Commit", b.Hash, ForgedBlock, z, en) : b \in proposed}

\* a send of a node z whose steps are not modelled, to committee member en:
\* the goroutine runs at once
Send(z, en, messages) ==
    /\ Running(en)
    /\ IsValidator[en]
    /\ BagCardinality(sent) < MaxSends
    /\ \E m \in messages :
          /\ sent' = sent (+) SetToBag({m})
          /\ \/ /\ m.Type = "PrePrepare"
                /\ HandlePrePrepare(en, m, msgs)
                /\ UNCHANGED <<prepareVotes, commitVotes, Chain, appendedBy,
                               interactions>>
             \/ /\ m.Type = "Prepare"
                /\ HandlePrepare(en, m, msgs)
                /\ UNCHANGED interactions
             \/ /\ m.Type = "Commit"
                /\ HandleCommit(en, m, msgs, {TRUE})
    /\ UNCHANGED <<groupVars, TxPool, now, r, pc, txi, role, proposed, historyVars,
                   holding>>

ByzantineSend(z, en) ==
    /\ role[z] = "byzantine"
    /\ Send(z, en, ByzantineMessages(z, en))

InitByz ==
    /\ InitState
    /\ role = Roles("byzantine", "runs")

NextByz ==
    \/ NextHonest
    \/ \E z \in VehicleIDs, en \in VehicleIDs : ByzantineSend(z, en)

SpecByz == InitByz /\ [][NextByz]_vars

(***************************************************************************)
(* Spec: every node is correct.  The steps of one committee member are     *)
(* summarised by the messages it sends: a Prepare for a block announced to *)
(* it, once to each peer, and a Commit for a block to each peer once for   *)
(* every Prepare for it beyond the first that has been sent to the member. *)
(* A behaviour is a run of the program in which the other goroutines of    *)
(* that member have not run yet.                                           *)
(***************************************************************************)
Inbox(z, type) == {m \in BagToSet(msgs) : m.To = z /\ m.Type = type}

CorrectMessages(z, en) ==
    LET prepare(b) == MessageFor("Prepare", b.Hash, b, z, en)
        commit(b) == MessageFor("Commit", b.Hash, b, z, en)
        announced == {m.Block : m \in Inbox(z, "PrePrepare")}
        voters(b) == {m.From : m \in {x \in Inbox(z, "Prepare") : x.BlockHash = b.Hash}}
    IN  {prepare(b) : b \in {x \in announced : CopiesIn(prepare(x), sent) = 0}}
        \cup {commit(b) : b \in {x \in announced :
                 CopiesIn(commit(x), sent) + RequiredPrepareVotes(GetSize(Validators))
                    <= Cardinality(voters(x))}}

CorrectSend(z, en) ==
    /\ role[z] = "summarised"
    /\ Send(z, en, CorrectMessages(z, en))

\* the announcement of the malformed block, by a node outside the committee
MalformedAnnounce(z, en) ==
    /\ role[z] = "announcer"
    /\ Send(z, en, {MessageFor("PrePrepare", MalformedBlock.Hash, MalformedBlock, z, en)})

Init ==
    /\ InitState
    /\ role = Roles("summarised", "announcer")

Next ==
    \/ NextHonest
    \/ \E z \in VehicleIDs, en \in VehicleIDs : CorrectSend(z, en)
    \/ \E z \in VehicleIDs, en \in VehicleIDs : MalformedAnnounce(z, en)

Spec == Init /\ [][Next]_vars

(***************************************************************************)
(* SpecReach: every node is correct, the node outside the committee runs,  *)
(* and every goroutine that can run eventually runs.                       *)
(***************************************************************************)
InitReach ==
    /\ InitState
    /\ role = Roles("summarised", "runs")

NextReach ==
    \/ NextHonest
    \/ \E z \in VehicleIDs, en \in VehicleIDs : CorrectSend(z, en)

SpecReach == InitReach /\ [][NextReach]_vars /\ Fairness

(***************************************************************************)
(* SpecAnnounce: a node outside the committee announces a well-formed      *)
(* block on the genesis block to the committee members; one member is      *)
(* silent.                                                                 *)
(***************************************************************************)
ForgedAnnounce(z, en) ==
    /\ role[z] = "announcer"
    /\ Send(z, en, {MessageFor("PrePrepare", ForgedBlock.Hash, ForgedBlock, z, en)})

InitAnnounce ==
    /\ InitState
    /\ role = Roles("silent", "announcer")

NextAnnounce ==
    \/ NextHonest
    \/ \E z \in VehicleIDs, en \in VehicleIDs : ForgedAnnounce(z, en)

SpecAnnounce == InitAnnounce /\ [][NextAnnounce]_vars

(***************************************************************************)
(* SpecFeedback: a data set of fewer than four vehicles.  Every node runs, *)
(* the senders are vehicles of the data set, and the random draws of       *)
(* recordEmergencyInteractions take both outcomes.                         *)
(***************************************************************************)
SmallFleets == {1, 2}

InitFeedback ==
    /\ InitState
    /\ \E size \in SmallFleets :
          role = [n \in VehicleIDs |-> IF n <= size THEN "runs" ELSE "absent"]

NextFeedback ==
    \/ DriverRefresh(InitialReputation)
    \/ DriverGenerate({1, 2}, 1 .. MaxUrgency, {0}, {1})
    \/ DriverPropose
    \/ DriverIncrement
    \/ \E en \in VehicleIDs : ReceivePrePrepare(en)
    \/ \E en \in VehicleIDs : ReceivePrepare(en)
    \/ \E en \in VehicleIDs : ReceiveCommitDrawing(en, BOOLEAN)

SpecFeedback == InitFeedback /\ [][NextFeedback]_vars

(***************************************************************************)
(* SpecThree: a data set of three vehicles, all of them in the committee   *)
(* (N = 3, f = 0) and all of them running.                                 *)
(***************************************************************************)
ThreeVehicles == 3

InitThree ==
    /\ InitState
    /\ role = [n \in VehicleIDs |-> IF n <= ThreeVehicles THEN "runs" ELSE "absent"]

NextThree ==
    \/ DriverRefresh(InitialReputation)
    \/ DriverGenerate({ThreeVehicles}, {1}, {0}, {1})
    \/ DriverPropose
    \/ DriverIncrement
    \/ \E en \in VehicleIDs : ReceivePrePrepare(en)
    \/ \E en \in VehicleIDs : ReceivePrepare(en)
    \/ \E en \in VehicleIDs : ReceiveCommit(en)

SpecThree == InitThree /\ [][NextThree]_vars

(***************************************************************************)
(* SpecOutside: the last committee member runs no code; it calls           *)
(* ReceiveMessage of the nodes outside the committee with a PrePrepare for *)
(* a proposed block, for the forged block or for the malformed block.      *)
(***************************************************************************)
AnnounceOutside(z, en) ==
    /\ role[z] = "announcer"
    /\ Running(en)
    /\ ~IsValidator[en]
    /\ BagCardinality(sent) < MaxSends
    /\ \E b \in proposed \cup {ForgedBlock, MalformedBlock} :
          LET m == MessageFor("PrePrepare", b.Hash, b, z, en)
          IN  /\ sent' = sent (+) SetToBag({m})
              /\ HandlePrePrepare(en, m, msgs)
    /\ UNCHANGED <<groupVars, Chain, TxPool, prepareVotes, commitVotes, now, r, pc, txi,
                   role, appendedBy, proposed, historyVars, interactions, holding>>

InitOutside ==
    /\ InitState
    /\ role = Roles("announcer", "runs")

NextOutside ==
    \/ NextHonest
    \/ \E z \in VehicleIDs, en \in VehicleIDs : AnnounceOutside(z, en)

SpecOutside == InitOutside /\ [][NextOutside]_vars

(***************************************************************************)
(* SpecTables: a data set of three vehicles; the third runs no code and    *)
(* announces the forged block, so that the tables of the two others hold   *)
(* entries for two hashes.                                                 *)
(***************************************************************************)
InitTables ==
    /\ InitState
    /\ role = [n \in VehicleIDs |-> IF n < ThreeVehicles THEN "runs"
                                     ELSE IF n = ThreeVehicles THEN "announcer"
                                     ELSE "absent"]

NextTables ==
    \/ NextThree
    \/ \E z \in VehicleIDs, en \in VehicleIDs : ForgedAnnounce(z, en)

SpecTables == InitTables /\ [][NextTables]_vars

(***************************************************************************)
(* SpecLock: a data set of three vehicles; the steps of the third are      *)
(* summarised by the messages it sends.  A call of                         *)
(* ReceiveMessage takes two steps: it takes en.mutex, and it runs the      *)
(* handler and releases the mutex.  Between the two the goroutine is       *)
(* inside the handler.  The chain is not protected by en.mutex: a handler  *)
(* reads the chain at any moment between the two steps.                    *)
(***************************************************************************)
\* the objects the ReceiveMessage call that holds en.mutex reads or writes:
\* its own vote tables, the chain in VerifyBlock or AddBlock, and its log
Accesses(en) ==
    IF holding[en] = Free THEN {}
    ELSE LET msg == holding[en].msg
             votes == MapGet(commitVotes[en], msg.BlockHash, {}) \cup {msg.From}
         IN  IF msg.Type = "PrePrepare"
             THEN IF IsValidator[en] THEN {<<"votes", en>>, <<"chain">>} ELSE {}
             ELSE IF msg.Type = "Prepare"
             THEN IF IsValidator[en] THEN {<<"votes", en>>} ELSE {}
             ELSE IF Cardinality(votes) >= RequiredCommitVotes(GetSize(Validators))
                  THEN {<<"votes", en>>, <<"chain">>, <<"log", en>>}
                  ELSE {<<"votes", en>>}

\* the chains the handler of node en can have read: the chain as it is and
\* the chain as it was when en.mutex was taken (they differ when a handler
\* of another node has appended in between)
ChainsSeen(en) == {Chain, holding[en].chain}

\* ReceiveMessage: en.mutex.Lock()
LockReceive(en) ==
    /\ Running(en)
    /\ holding[en] = Free
    /\ \E m \in {x \in BagToSet(msgs) : x.To = en} :
          /\ holding' = [holding EXCEPT ![en] = [msg |-> m, chain |-> Chain]]
          /\ msgs' = msgs (-) SetToBag({m})
    /\ UNCHANGED <<groupVars, Chain, TxPool, voteVars, now, r, pc, txi, faultVars,
                   appendedBy, proposed, historyVars, interactions, phases>>

\* ReceiveMessage: the handler of the message, and the deferred Unlock
UnlockReceive(en) ==
    /\ Running(en)
    /\ holding[en] # Free
    /\ holding' = [holding EXCEPT ![en] = Free]
    /\ LET m == holding[en].msg
       IN  \/ /\ m.Type = "PrePrepare"
              /\ \E seen \in ChainsSeen(en) : HandlePrePrepareOn(seen, en, m, msgs)
              /\ UNCHANGED <<prepareVotes, commitVotes, Chain, appendedBy, interactions>>
           \/ /\ m.Type = "Prepare"
              /\ HandlePrepare(en, m, msgs)
              /\ UNCHANGED interactions
           \/ /\ m.Type = "Commit"
              /\ \E seen \in ChainsSeen(en) : HandleCommitOn(seen, en, m, msgs, {TRUE})
    /\ UNCHANGED <<groupVars, TxPool, now, r, pc, txi, faultVars, proposed, historyVars>>

\* a send of the summarised member z to en: the goroutine is started
SummarisedSend(z, en) ==
    /\ role[z] = "summarised"
    /\ Running(en)
    /\ IsValidator[en]
    /\ BagCardinality(sent) < MaxSends
    /\ \E m \in CorrectMessages(z, en) :
          /\ sent' = sent (+) SetToBag({m})
          /\ msgs' = msgs (+) SetToBag({m})
    /\ UNCHANGED <<groupVars, Chain, TxPool, voteVars, now, r, pc, txi, role,
                   appendedBy, proposed, historyVars, interactions, phases, holding>>

InitLock ==
    /\ InitState
    /\ role = [n \in VehicleIDs |-> IF n < ThreeVehicles THEN "runs"
                                     ELSE IF n = ThreeVehicles THEN "summarised"
                                     ELSE "absent"]

NextLock ==
    \/ DriverRefresh(InitialReputation)
    \/ DriverGenerate({ThreeVehicles}, {1}, {0}, {1})
    \/ DriverPropose
    \/ DriverIncrement
    \/ \E z \in VehicleIDs, en \in VehicleIDs : SummarisedSend(z, en)
    \/ \E en \in VehicleIDs : LockReceive(en)
    \/ \E en \in VehicleIDs : UnlockReceive(en)

SpecLock == InitLock /\ [][NextLock]_vars

(***************************************************************************)
(* SpecLog: one ReputationManager.  Interactions among three vehicles are  *)
(* added to its log, with counts that include negative ones, and           *)
(* ComputeReputation is called for any target, under two configurations.   *)
(***************************************************************************)
LogOwner == 1

LogVehicles == {1, 2, 3}

\* PosEvents and NegEvents of an Interaction
EventCounts == {<<1, 0>>, <<0, 1>>, <<2, 0>>, <<-1, 0>>, <<0, -1>>}

\* TxType and UrgencyDegree of an Interaction
TxClasses == {<<"NormalTransaction", 0>>, <<"EmergencyTransaction", 1>>}

LogInteractions ==
    {[From |-> pair[1], To |-> pair[2], PosEvents |-> c[1], NegEvents |-> c[2],
      Timestamp |-> 0, TrajUser |-> <<>>, TrajProvider |-> <<>>,
      TxType |-> class[1], UrgencyDegree |-> class[2]] :
        pair \in {p \in LogVehicles \X LogVehicles : p[1] # p[2]},
        c \in EventCounts, class \in TxClasses}

\* config.Config: the weights sum to 1; Mu is 1 or 2
Configs ==
    {[Rho1 |-> Rat(1, 3), Rho2 |-> Rat(1, 3), Rho3 |-> Rat(1, 3), Eta |-> One,
      Epsilon |-> 1, Mu |-> Float64(mu), Gamma |-> Rat(1, 2)] : mu \in {1, 2}}

\* ReputationManager.AddInteraction(inter) on the manager of node en
AddInteractionCall(en, inter) ==
    /\ Len(interactions[en]) < MaxLog
    /\ interactions' = [interactions EXCEPT ![en] = Append(@, inter)]
    /\ lastManagerCall' = [op |-> "add", n |-> 0, log |-> interactions[en],
                           inter |-> inter]
    /\ UNCHANGED <<phases, holding, groupVars, Chain, TxPool, voteVars, msgs, now, r, pc, txi,
                   faultVars, appendedBy, proposed, lastDrain, lastSelect, lastVerify,
                   lastGroupCall>>

\* ReputationManager.ComputeReputation(target, now) on the manager of node
\* en: reads the log, writes nothing
ComputeReputationCall(en, cfg, target, nowv) ==
    /\ lastManagerCall.n < MaxComputes
    /\ lastManagerCall' =
          [op |-> "compute", n |-> lastManagerCall.n + 1, log |-> interactions[en], cfg |-> cfg,
           target |-> target, now |-> nowv,
           direct |-> ComputeDirectOpinions(interactions[en], cfg, nowv),
           result |-> ComputeReputation(interactions[en], cfg, target, nowv)]
    /\ UNCHANGED <<phases, holding, groupVars, Chain, TxPool, voteVars, msgs, now, r, pc, txi,
                   faultVars, appendedBy, proposed, lastDrain, lastSelect, lastVerify,
                   lastGroupCall, interactions>>

InitLog ==
    /\ InitState
    /\ role = Roles("runs", "runs")

NextLog ==
    \/ \E inter \in LogInteractions : AddInteractionCall(LogOwner, inter)
    \/ \E cfg \in Configs, target \in LogVehicles, nowv \in 0 .. MaxTime :
          ComputeReputationCall(LogOwner, cfg, target, nowv)

SpecLog == InitLog /\ [][NextLog]_vars

(***************************************************************************)
(* SpecAggregate: aggregateByPair is called on the log of one manager,     *)
(* after AddInteraction calls with Interactions of any timestamp and       *)
(* trajectories.                                                           *)
(***************************************************************************)
Moving == [Speed |-> 1, Direction |-> 1, Acceleration |-> 1]
AtRest == [Speed |-> 0, Direction |-> 0, Acceleration |-> 0]

TrajInteractions ==
    {[From |-> pair[1], To |-> pair[2], PosEvents |-> c[1], NegEvents |-> c[2],
      Timestamp |-> t, TrajUser |-> user, TrajProvider |-> prov,
      TxType |-> "EmergencyTransaction", UrgencyDegree |-> 1] :
        pair \in {<<2, 1>>, <<3, 1>>, <<2, 3>>}, c \in {<<1, 0>>, <<0, 1>>},
        t \in 0 .. MaxTime, user \in {<<>>, <<Moving>>}, prov \in {<<>>, <<AtRest>>}}

\* ReputationManager.aggregateByPair() on the manager of node en: reads the
\* log, writes nothing
AggregateByPairCall(en) ==
    /\ lastManagerCall' =
          [op |-> "aggregate", n |-> 0, log |-> interactions[en],
           agg |-> [to \in Targets(interactions[en]) |->
                      [from \in Evaluators(interactions[en], to) |->
                          AggregateByPair(interactions[en], to, from)]]]
    /\ UNCHANGED <<phases, holding, groupVars, Chain, TxPool, voteVars, msgs, now, r, pc, txi,
                   faultVars, appendedBy, proposed, lastDrain, lastSelect, lastVerify,
                   lastGroupCall, interactions>>

NextAggregate ==
    \/ \E inter \in TrajInteractions : AddInteractionCall(LogOwner, inter)
    \/ AggregateByPairCall(LogOwner)

SpecAggregate == InitLog /\ [][NextAggregate]_vars

(***************************************************************************)
(* SpecPool: the transaction pool.  The driver admits transactions of any  *)
(* urgency from two senders, and GetTopKTransactions is called with any k. *)
(***************************************************************************)
\* TransactionPool.GetTopKTransactions(k), called on the shared pool
GetTopKTransactionsCall(k) ==
    /\ LET drained == GetTopKTransactions(TxPool, k)
       IN  /\ TxPool' = drained.pool
           /\ lastDrain' = [op |-> "drain", n |-> 0, k |-> k, before |-> TxPool,
                            result |-> drained.result, after |-> drained.pool]
    /\ UNCHANGED <<phases, holding, groupVars, Chain, voteVars, msgs, now, r, pc, txi, faultVars,
                   appendedBy, proposed, lastSelect, lastVerify, lastGroupCall,
                   interactions, lastManagerCall>>

InitPool ==
    /\ InitState
    /\ role = Roles("runs", "runs")

NextPool ==
    \/ DriverRefresh(InitialReputation)
    \/ DriverGenerate({1, 2}, 1 .. MaxUrgency, 0 .. MaxTime, 1 .. MaxTxPerRound)
    \/ \E k \in 0 .. MaxK : GetTopKTransactionsCall(k)

SpecPool == InitPool /\ [][NextPool]_vars

(***************************************************************************)
(* SpecVG: the validator group.  SelectValidators is called with any       *)
(* reputations, on several candidate lists.                                *)
(***************************************************************************)
CandidateLists ==
    {<<>>, <<3, 1>>, VehicleSeq, [i \in 1 .. NumVehicles |-> NumVehicles + 1 - i]}

\* the candidates that have a reputation manager
ManagerSets == {VehicleIDs, VehicleIDs \ {1}}

\* ValidatorGroup.SelectValidators(nodeIDs, reputationManagers, now)
SelectValidatorsCall(nodeIDs, rms, rep) ==
    /\ lastSelect.n < MaxSelects
    /\ \E v \in SelectValidators(nodeIDs, rms, rep) :
          /\ Validators' = v
          /\ CurrentRound' = 0
    /\ lastSelect' = [op |-> "select", n |-> lastSelect.n + 1, nodeIDs |-> nodeIDs,
                      rms |-> rms, rep |-> rep]
    /\ lastGroupCall' = NoGroupCall
    /\ UNCHANGED <<phases, holding, IsValidator, Chain, TxPool, voteVars, msgs, now, r, pc, txi,
                   faultVars, appendedBy, proposed, lastDrain, lastVerify,
                   interactions, lastManagerCall>>

InitVG ==
    /\ InitState
    /\ role = Roles("runs", "runs")

NextVG ==
    \E nodeIDs \in CandidateLists, rms \in ManagerSets,
       rep \in [VehicleIDs -> 0 .. MaxReputation] :
        SelectValidatorsCall(nodeIDs, rms, rep)

SpecVG == InitVG /\ [][NextVG]_vars

(***************************************************************************)
(* SpecGroup: the life of the validator group.  After SelectValidators,    *)
(* IncrementRound, PenalizeInactiveValidators and SelectProposer are       *)
(* called in any order, with two-valued reputations (ties are frequent).   *)
(***************************************************************************)
GroupReputations ==
    {[n \in VehicleIDs |-> n % 2],
     [n \in VehicleIDs |-> IF n > 3 THEN 1 ELSE 0],
     [n \in VehicleIDs |-> IF n <= 3 THEN 1 ELSE 0]}

\* the candidate lists of a select: none, fewer than GroupSize, all vehicles
GroupCandidateLists == {<<>>, <<3, 1>>, VehicleSeq}

\* the ids reported as inactive
InactiveSets == {{}, {2, 3}, VehicleIDs}

\* the replenishment candidates
ReplacementLists == {<<>>, <<5>>, <<5, 1>>, <<2, 5, 3>>}

\* ValidatorGroup.IncrementRound()
IncrementRoundCall ==
    /\ CurrentRound < MaxRound
    /\ CurrentRound' = IncrementRound(CurrentRound)
    /\ lastGroupCall' = [op |-> "increment", n |-> lastGroupCall.n,
                         incs |-> lastGroupCall.incs + 1]
    /\ UNCHANGED <<phases, holding, Validators, IsValidator, Chain, TxPool, voteVars, msgs, now, r, pc,
                   txi, faultVars, appendedBy, proposed, lastDrain, lastSelect,
                   lastVerify,
                   interactions, lastManagerCall>>

\* ValidatorGroup.PenalizeInactiveValidators(inactiveValidators,
\* reputationManagers, newCandidates, now)
PenalizeInactiveValidatorsCall(inactiveValidators, rms, newCandidates, rep) ==
    /\ lastGroupCall.n < MaxPenalties
    /\ \E v \in PenalizeInactiveValidators(Validators, inactiveValidators, rms,
                                           newCandidates, rep) :
          Validators' = v
    /\ lastGroupCall' = [op |-> "penalise", n |-> lastGroupCall.n + 1,
                         incs |-> lastGroupCall.incs, before |-> Validators,
                         round |-> CurrentRound,
                         inactiveValidators |-> inactiveValidators, rms |-> rms,
                         newCandidates |-> newCandidates, rep |-> rep]
    /\ UNCHANGED <<phases, holding, CurrentRound, IsValidator, Chain, TxPool, voteVars, msgs, now, r,
                   pc, txi, faultVars, appendedBy, proposed, lastDrain, lastSelect,
                   lastVerify,
                   interactions, lastManagerCall>>

\* ValidatorGroup.SelectProposer(): reads the group, writes nothing
SelectProposerCall ==
    /\ lastGroupCall' = [op |-> "proposer", n |-> lastGroupCall.n,
                         incs |-> lastGroupCall.incs, before |-> Validators,
                         result |-> SelectProposer(Validators)]
    /\ UNCHANGED <<phases, holding, groupVars, Chain, TxPool, voteVars, msgs, now, r, pc, txi,
                   faultVars, appendedBy, proposed, lastDrain, lastSelect, lastVerify,
                   interactions, lastManagerCall>>

InitGroup ==
    /\ InitState
    /\ role = Roles("runs", "runs")

NextGroup ==
    \/ \E nodeIDs \in GroupCandidateLists, rep \in GroupReputations :
          SelectValidatorsCall(nodeIDs, VehicleIDs, rep)
    \/ IncrementRoundCall
    \/ \E inactiveValidators \in InactiveSets, rms \in ManagerSets,
          newCandidates \in ReplacementLists, rep \in GroupReputations :
          PenalizeInactiveValidatorsCall(inactiveValidators, rms, newCandidates, rep)
    \/ SelectProposerCall

SpecGroup == InitGroup /\ [][NextGroup]_vars

(***************************************************************************)
(* SpecBlock: the chain.  AddBlock is called with well-formed blocks and   *)
(* VerifyBlock with well-formed and tampered blocks.                       *)
(***************************************************************************)
FirstTransaction == NewEmergencyTransaction(<<0, 1, 0>>, 1, 0, 1)
SecondTransaction == NewEmergencyTransaction(<<0, 2, 1>>, 2, 0, 2)

BlockTransactions ==
    {<<>>, <<FirstTransaction>>, <<FirstTransaction, SecondTransaction>>}

\* the blocks NewEmergencyBlock builds on the tip of the chain
BuiltOnTip(chain) ==
    {NewEmergencyBlock(GetLatestBlock(chain).Index + 1, GetLatestBlock(chain).Hash,
                       txs, <<>>, 0) : txs \in BlockTransactions}

\* a block and the same with one field changed
Tampered(b) ==
    {b,
     [b EXCEPT !.Index = @ + 1],
     [b EXCEPT !.Timestamp = @ + 1],
     [b EXCEPT !.PrevHash = GenesisBlock.PrevHash],
     [b EXCEPT !.MerkleRoot = Sha256(<<"ids">>)],
     [b EXCEPT !.Hash = GenesisBlock.Hash],
     [b EXCEPT !.Transactions = <<SecondTransaction>>],
     [b EXCEPT !.TotalUrgency = @ + 1]}

\* a block that was built on an earlier tip, or with another index
BuiltElsewhere(chain) ==
    {NewEmergencyBlock(index, prev.Hash, txs, <<>>, 0) :
        index \in {GetLatestBlock(chain).Index, GetLatestBlock(chain).Index + 1},
        prev \in Range(chain), txs \in BlockTransactions}

CandidateBlocks(chain) ==
    BuiltElsewhere(chain) \cup UNION {Tampered(b) : b \in BuiltOnTip(chain)}

\* EmergencyBlockchain.VerifyBlock(block): reads the chain, writes nothing
VerifyBlockCall(block) ==
    /\ lastVerify' = [op |-> "verify", n |-> 0, chain |-> Chain, block |-> block,
                      result |-> VerifyBlock(Chain, block)]
    /\ UNCHANGED <<phases, holding, groupVars, Chain, TxPool, voteVars, msgs, now, r, pc, txi,
                   faultVars, appendedBy, proposed, lastDrain, lastSelect,
                   lastGroupCall,
                   interactions, lastManagerCall>>

\* EmergencyBlockchain.AddBlock(block)
AddBlockCall(block) ==
    /\ Len(Chain) < MaxChain
    /\ Chain' = AddBlock(Chain, block)
    /\ UNCHANGED <<phases, holding, groupVars, TxPool, voteVars, msgs, now, r, pc, txi, faultVars,
                   appendedBy, proposed, historyVars,
                   interactions>>

InitBlock ==
    /\ InitState
    /\ role = Roles("runs", "runs")

NextBlock ==
    \/ \E block \in CandidateBlocks(Chain) : VerifyBlockCall(block)
    \/ \E block \in BuiltOnTip(Chain) : AddBlockCall(block)

SpecBlock == InitBlock /\ [][NextBlock]_vars

(***************************************************************************)
(* SpecPropose: ProposeEmergencyBlock and GetTopKTransactions are called   *)
(* at any time, by any node, on a pool that the driver fills.              *)
(***************************************************************************)
\* EmergencyNode.ProposeEmergencyBlock(), called on node en
ProposeEmergencyBlockCall(en) ==
    /\ lastDrain.op = "propose" => lastDrain.n < MaxProposals
    /\ ProposeEmergencyBlock(en)
    /\ lastDrain' = [op |-> "propose",
                     n |-> IF lastDrain.op = "propose" THEN lastDrain.n + 1 ELSE 1,
                     en |-> en, before |-> TxPool]
    /\ UNCHANGED <<groupVars, Chain, prepareVotes, commitVotes, now, r, pc, txi,
                   faultVars, appendedBy, lastSelect, lastVerify, lastGroupCall,
                   interactions, lastManagerCall, holding>>

InitPropose ==
    /\ InitState
    /\ role = Roles("runs", "runs")

NextPropose ==
    \/ DriverRefresh(InitialReputation)
    \/ DriverGenerate({1, 2}, 1 .. MaxUrgency, {0}, 1 .. MaxTxPerRound)
    \/ \E k \in {0, BlockSize} : GetTopKTransactionsCall(k)
    \/ \E en \in VehicleIDs : ProposeEmergencyBlockCall(en)

SpecPropose == InitPropose /\ [][NextPropose]_vars

(***************************************************************************)
(* SpecBuild: a data set of two vehicles.  ProposeEmergencyBlock is called *)
(* at any time on a pool that the driver fills and on a chain that grows.  *)
(***************************************************************************)
InitBuild ==
    /\ InitState
    /\ role = [n \in VehicleIDs |-> IF n < ThreeVehicles THEN "runs" ELSE "absent"]

NextBuild ==
    \/ DriverRefresh(InitialReputation)
    \/ DriverGenerate({1, 2}, 1 .. MaxUrgency, {0}, 1 .. MaxTxPerRound)
    \/ \E en \in VehicleIDs : ProposeEmergencyBlockCall(en)
    \/ \E block \in BuiltOnTip(Chain) : AddBlockCall(block)

SpecBuild == InitBuild /\ [][NextBuild]_vars

(***************************************************************************)
(* The claims about the vote protocol.                                     *)
(***************************************************************************)
\* f of the specification: floor((N - 1) / 3)
FloorF(N) == (N - 1) \div 3

\* the committee members that run the code
HonestMembers == {n \in VehicleIDs : Running(n) /\ IsValidator[n]}

\* in a step: the messages of a type whose handler ran at node en
DeliveredTo(en, type) ==
    {m \in Pending(en, type) : CopiesIn(m, msgs') < CopiesIn(m, msgs)}
    \cup {m \in BagToSet(sent') : /\ m.To = en
                                  /\ m.Type = type
                                  /\ CopiesIn(m, sent') > CopiesIn(m, sent)}

\* in a step: the messages of a type that node en broadcast
BroadcastBy(en, type) ==
    {m \in BagToSet(msgs') : /\ m.From = en
                             /\ m.Type = type
                             /\ CopiesIn(m, msgs') > CopiesIn(m, msgs)}

\* C1: chain link: every block after the first has the hash of the block
\* before it as its prev-hash and an index one higher
ChainLink ==
    \A i \in 2 .. Len(Chain) :
        /\ Chain[i].PrevHash = Chain[i - 1].Hash
        /\ Chain[i].Index = Chain[i - 1].Index + 1

\* C2: BFT agreement: two blocks of the same index appended by two honest
\* committee members have the same hash
Agreement ==
    \A n1 \in HonestMembers, n2 \in HonestMembers :
        \A b1 \in appendedBy[n1], b2 \in appendedBy[n2] :
            b1.Index = b2.Index => b1.Hash = b2.Hash

InvalidBlockDropped ==
    /\ [](/\ \A m \in BagToSet(msgs) :
               m.Type = "PrePrepare" \/ m.BlockHash # MalformedBlock.Hash
          /\ \A en \in VehicleIDs :
               /\ MalformedBlock.Hash \notin DOMAIN prePrepareReceived[en]
               /\ MalformedBlock.Hash \notin DOMAIN prepareVotes[en]
               /\ MalformedBlock.Hash \notin DOMAIN commitVotes[en]
               /\ MalformedBlock \notin appendedBy[en]
          /\ MalformedBlock \notin Range(Chain))
    /\ [][\A en \in VehicleIDs : \A m \in DeliveredTo(en, "PrePrepare") :
            ~VerifyBlock(Chain, m.Block) =>
               /\ BroadcastBy(en, "Prepare") = {}
               /\ prePrepareReceived'[en] = prePrepareReceived[en]
               /\ prepareVotes'[en] = prepareVotes[en]
               /\ commitVotes'[en] = commitVotes[en]
               /\ Chain' = Chain]_vars

\* C5 happens: the malformed block has been announced to a committee member
MalformedBlockAnnounced ==
    \E m \in BagToSet(sent) :
        /\ m.Type = "PrePrepare"
        /\ m.Block = MalformedBlock
        /\ IsValidator[m.To]
        /\ ~VerifyBlock(Chain, m.Block)

\* C6: liveness with an honest proposer: once a block is proposed, every
\* honest committee member eventually appends it
LivenessHonestProposer ==
    (proposed # {}) ~> (\A n \in HonestMembers : proposed \subseteq appendedBy[n])

(***************************************************************************)
(* The claims about the chain, the pool and the validator group.           *)
(***************************************************************************)
Min(a, b) == IF a < b THEN a ELSE b

\* the five checks of the specification, on a block and the tip of a chain
FiveChecks(chain, block) ==
    /\ block.Index = chain[Len(chain)].Index + 1
    /\ block.PrevHash = chain[Len(chain)].Hash
    /\ block.MerkleRoot = CalculateMerkleRoot(block.Transactions)
    /\ block.Hash = CalculateHash(block)
    /\ block.TotalUrgency = CalculateTotalUrgency(block.Transactions)

\* C7: block integrity: VerifyBlock returns true exactly when the five checks
\* hold of the block and the tip of the chain, and a VerifyBlock call leaves
\* the chain as it was
BlockIntegrity ==
    /\ [](lastVerify.op = "verify" =>
             (lastVerify.result <=> FiveChecks(lastVerify.chain, lastVerify.block)))
    /\ [][lastVerify' # lastVerify => Chain' = Chain /\ lastVerify'.chain = Chain]_vars

\* C7 happens: VerifyBlock has accepted a block on a chain longer than genesis
BlockAccepted ==
    /\ lastVerify.op = "verify"
    /\ lastVerify.result
    /\ Len(lastVerify.chain) > 1

\* C7 happens also the other way: VerifyBlock has rejected a block for its
\* total urgency alone
BlockRejectedForUrgency ==
    /\ lastVerify.op = "verify"
    /\ ~lastVerify.result
    /\ \E b \in BuiltOnTip(lastVerify.chain) :
          lastVerify.block = [b EXCEPT !.TotalUrgency = @ + 1]

NonIncreasingUrgency(txs) ==
    \A i \in 1 .. Len(txs) - 1 : txs[i].UrgencyDegree >= txs[i + 1].UrgencyDegree

\* the transactions of a sequence as a bag
BagOf(txs) ==
    [tx \in Range(txs) |-> Cardinality({i \in 1 .. Len(txs) : txs[i] = tx})]

\* C8: mempool drain: GetTopKTransactions(k) returns min(k, size before)
\* transactions in non-increasing urgency, none of a lower urgency than one
\* left behind, the size of the pool drops by the number returned, and what
\* remains is what was there less what was returned
DrainExact ==
    lastDrain.op = "drain" =>
        /\ Len(lastDrain.result) = Min(lastDrain.k, Len(lastDrain.before))
        /\ NonIncreasingUrgency(lastDrain.result)
        /\ \A i \in 1 .. Len(lastDrain.result), j \in 1 .. Len(lastDrain.after) :
              lastDrain.result[i].UrgencyDegree >= lastDrain.after[j].UrgencyDegree
        /\ Len(lastDrain.after) = Len(lastDrain.before) - Len(lastDrain.result)
        /\ BagOf(lastDrain.after) (+) BagOf(lastDrain.result) = BagOf(lastDrain.before)

\* lexicographic order of two ids of the same length
LexLess(a, b) ==
    \E i \in 1 .. Len(a) : a[i] < b[i] /\ \A j \in 1 .. i - 1 : a[j] = b[j]

\* the order of the specification among transactions of equal urgency
Before(t, u) ==
    \/ t.ArrivalTime < u.ArrivalTime
    \/ t.ArrivalTime = u.ArrivalTime /\ LexLess(t.ID, u.ID)

\* C9 as stated: among transactions of equal urgency the drain puts first,
\* and prefers at the cut-off, the earlier arrival and then the smaller id
DrainTieBreak ==
    lastDrain.op = "drain" =>
        /\ \A i \in 1 .. Len(lastDrain.result), j \in 1 .. Len(lastDrain.result) :
              (/\ i < j
               /\ lastDrain.result[i].UrgencyDegree = lastDrain.result[j].UrgencyDegree)
                  => ~Before(lastDrain.result[j], lastDrain.result[i])
        /\ \A i \in 1 .. Len(lastDrain.result), q \in 1 .. Len(lastDrain.before) :
              (/\ lastDrain.before[q].ID
                     \notin {lastDrain.result[x].ID : x \in 1 .. Len(lastDrain.result)}
               /\ lastDrain.before[q].UrgencyDegree = lastDrain.result[i].UrgencyDegree)
                  => ~Before(lastDrain.before[q], lastDrain.result[i])

\* the place of position q of a pool in the order "higher urgency first, and
\* among equal urgencies the one added earlier first"
PlaceOf(pool, q) ==
    1 + Cardinality({x \in 1 .. Len(pool) :
                        \/ pool[x].UrgencyDegree > pool[q].UrgencyDegree
                        \/ pool[x].UrgencyDegree = pool[q].UrgencyDegree /\ x < q})

\* C9 amended: among transactions of equal urgency the drain puts first, and
\* prefers at the cut-off, the one that was added to the pool earlier
DrainInsertionOrder ==
    lastDrain.op = "drain" =>
        /\ Len(lastDrain.result) = Min(lastDrain.k, Len(lastDrain.before))
        /\ \A q \in 1 .. Len(lastDrain.before) :
              PlaceOf(lastDrain.before, q) <= Len(lastDrain.result)
                 => lastDrain.result[PlaceOf(lastDrain.before, q)] = lastDrain.before[q]

\* C9 happens: a drain returned two different transactions of equal urgency
\* and left a third copy of that urgency behind
DrainAcrossTie ==
    /\ lastDrain.op = "drain"
    /\ \E i \in 1 .. Len(lastDrain.result), j \in 1 .. Len(lastDrain.result) :
          /\ lastDrain.result[i].ID # lastDrain.result[j].ID
          /\ lastDrain.result[i].UrgencyDegree = lastDrain.result[j].UrgencyDegree
    /\ Len(lastDrain.result) = lastDrain.k
    /\ Len(lastDrain.before) > lastDrain.k

\* the candidates of the last SelectValidators call that have a manager
Candidates == {lastSelect.nodeIDs[i] : i \in 1 .. Len(lastSelect.nodeIDs)} \cap lastSelect.rms

\* the place of a candidate in the order "higher reputation first, and among
\* equal reputations the smaller id first"
PlaceOfCandidate(c) ==
    1 + Cardinality({x \in Candidates :
                        \/ lastSelect.rep[x] > lastSelect.rep[c]
                        \/ lastSelect.rep[x] = lastSelect.rep[c] /\ x < c})

\* C10 as stated: after SelectValidators on candidates that all have a
\* reputation, the members are the min(N, candidates) candidates of the highest
\* reputation, in descending reputation, equal reputations by ascending id
CommitteeTopN ==
    (/\ lastSelect.op = "select"
     /\ \A i \in 1 .. Len(lastSelect.nodeIDs) : lastSelect.nodeIDs[i] \in lastSelect.rms)
        => /\ Len(Validators) = Min(GroupSize, Cardinality(Candidates))
           /\ \A c \in Candidates :
                 PlaceOfCandidate(c) <= Len(Validators)
                    => Validators[PlaceOfCandidate(c)] =
                          [ID |-> c, Reputation |-> lastSelect.rep[c]]

\* C10 amended: after SelectValidators the members are min(N, candidates
\* that have a manager) different candidates with their reputations, in
\* non-increasing reputation, and no candidate left out has a higher
\* reputation than a member
CommitteeTopNAnyTieOrder ==
    lastSelect.op = "select" =>
        /\ Len(Validators) = Min(GroupSize, Cardinality(Candidates))
        /\ \A i \in 1 .. Len(Validators) :
              /\ Validators[i].ID \in Candidates
              /\ Validators[i].Reputation = lastSelect.rep[Validators[i].ID]
              /\ \A j \in 1 .. Len(Validators) :
                    /\ i < j => Validators[i].Reputation >= Validators[j].Reputation
                    /\ i # j => Validators[i].ID # Validators[j].ID
              /\ \A c \in Candidates :
                    c \notin {Validators[x].ID : x \in 1 .. Len(Validators)}
                       => lastSelect.rep[c] <= Validators[i].Reputation
        /\ CurrentRound = 0

\* C10 happens: a select over more than N candidates with a tie at the cut-off
SelectAcrossTie ==
    /\ lastSelect.op = "select"
    /\ Len(Validators) = GroupSize
    /\ \E c \in Candidates :
          /\ c \notin {Validators[x].ID : x \in 1 .. Len(Validators)}
          /\ lastSelect.rep[c] = Validators[GroupSize].Reputation
          /\ c < Validators[GroupSize].ID

CommitteeSizeBound == Len(Validators) <= GroupSize

\* C12 happens: a penalise with more candidates than free places filled the
\* group
ReplenishedToGroupSize ==
    /\ lastGroupCall.op = "penalise"
    /\ Len(Validators) = GroupSize
    /\ Len(ActiveValidators(lastGroupCall.before, lastGroupCall.inactiveValidators))
          < GroupSize
    /\ Len(NodeReputation(lastGroupCall.newCandidates, lastGroupCall.rms,
                          lastGroupCall.rep))
          > GroupSize - Len(ActiveValidators(lastGroupCall.before,
                                             lastGroupCall.inactiveValidators))

\* the members of the last penalise call that were not listed as inactive
Survivors ==
    SelectSeq(lastGroupCall.before,
              LAMBDA v : v.ID \notin lastGroupCall.inactiveValidators)

\* the replenishment candidates of the last penalise call
Replacements ==
    {lastGroupCall.newCandidates[i] : i \in 1 .. Len(lastGroupCall.newCandidates)}

\* immediately after a penalise call the group is the survivors in their
\* order, then the min(GroupSize - survivors, |pool|) candidates of pool of
\* the highest reputation, in non-increasing reputation; a full group with no
\* member listed is unchanged; the round is unchanged
PenaliseResultFor(pool) ==
    lastGroupCall.op = "penalise" =>
        LET k == Len(Survivors)
            added == {Validators[x].ID : x \in k + 1 .. Len(Validators)}
        IN  /\ Len(Validators) = k + Min(GroupSize - k, Cardinality(pool))
            /\ SubSeq(Validators, 1, k) = Survivors
            /\ \A i \in k + 1 .. Len(Validators) :
                  /\ Validators[i].ID \in pool
                  /\ Validators[i].Reputation = lastGroupCall.rep[Validators[i].ID]
                  /\ \A j \in k + 1 .. Len(Validators) :
                        /\ i < j => Validators[i].Reputation >= Validators[j].Reputation
                        /\ i # j => Validators[i].ID # Validators[j].ID
                  /\ \A c \in pool \ added :
                        lastGroupCall.rep[c] <= Validators[i].Reputation
            /\ (k = Len(lastGroupCall.before) /\ k = GroupSize)
                  => Validators = lastGroupCall.before
            /\ CurrentRound = lastGroupCall.round

\* C13: after penalise the group is the previous members not listed, in
\* their order, followed by the min(N - survivors, number of candidates)
\* candidates of the highest reputation in descending order; a full group
\* with no member listed is unchanged; the round is unchanged
PenaliseResult == PenaliseResultFor(Replacements)

\* C13 amended: the same, the candidates being those that have a reputation
\* manager
PenaliseResultManaged == PenaliseResultFor(Replacements \cap lastGroupCall.rms)

\* C13 happens: a penalise removed a member and kept another, and filled the
\* free places from more candidates than places, with a tie at the cut-off
ReplenishAcrossTie ==
    /\ lastGroupCall.op = "penalise"
    /\ Len(Survivors) > 0
    /\ Len(Survivors) < Len(lastGroupCall.before)
    /\ Len(Validators) = GroupSize
    /\ \E c \in (Replacements \cap lastGroupCall.rms)
                   \ {Validators[x].ID : x \in Len(Survivors) + 1 .. Len(Validators)} :
          lastGroupCall.rep[c] = Validators[GroupSize].Reputation

\* SelectProposer returns nil for an empty group and never writes the group
ProposerReadsOnly ==
    /\ lastGroupCall.op = "proposer" =>
          /\ Validators = lastGroupCall.before
          /\ lastGroupCall.result = 0 <=> Len(Validators) = 0

\* C14: for a non-empty group SelectProposer returns a member whose stored
\* reputation is strictly higher than that of every other member; for an
\* empty group it returns nil; it never changes the group
ProposerStrictlyHighest ==
    /\ ProposerReadsOnly
    /\ (lastGroupCall.op = "proposer" /\ Len(Validators) > 0) =>
          \E i \in 1 .. Len(Validators) :
             /\ Validators[i].ID = lastGroupCall.result
             /\ \A j \in 1 .. Len(Validators) :
                   j # i => Validators[i].Reputation > Validators[j].Reputation

\* C14 amended: for a non-empty group SelectProposer returns the first
\* member, in stored order, whose stored reputation is not lower than that
\* of any member
ProposerFirstHighest ==
    /\ ProposerReadsOnly
    /\ (lastGroupCall.op = "proposer" /\ Len(Validators) > 0) =>
          \E i \in 1 .. Len(Validators) :
             /\ Validators[i].ID = lastGroupCall.result
             /\ \A j \in 1 .. Len(Validators) :
                   /\ Validators[i].Reputation >= Validators[j].Reputation
                   /\ j < i => Validators[i].Reputation > Validators[j].Reputation

\* C14 happens: SelectProposer was called on a group whose highest
\* reputation is not at the first place (a penalise appended it)
ProposerNotFirst ==
    /\ lastGroupCall.op = "proposer"
    /\ Len(Validators) > 1
    /\ lastGroupCall.result # Validators[1].ID
    /\ \E j \in 1 .. Len(Validators) :
          Validators[j].Reputation > Validators[1].Reputation

(***************************************************************************)
(* The feedback Interactions of a commit.                                  *)
(***************************************************************************)
\* in this step node en handles a Commit message that reaches the threshold
\* and appends block b
CommitsAt(en, b) ==
    /\ Chain' = AddBlock(Chain, b)
    /\ \E m \in Pending(en, "Commit") :
          /\ m.Block = b
          /\ msgs' = msgs (-) SetToBag({m})

CommitBlocks(en) == {m.Block : m \in Pending(en, "Commit")}

ReputationLog(nodeID) == interactions[nodeID]

\* C18: every feedback Interaction about a sender that a commit has emitted
\* is in the log from which the reputation of that sender is computed at the
\* next select
FeedbackLoopClosed ==
    \A en \in VehicleIDs :
        \A i \in 1 .. Len(interactions[en]) :
            \E j \in 1 .. Len(ReputationLog(interactions[en][i].To)) :
                ReputationLog(interactions[en][i].To)[j] = interactions[en][i]

\* C20: while the group holds fewer than 4 members no block is proposed and
\* no block is appended
InsufficientCommitteeHalts ==
    [][GetSize(Validators) < 4 => (proposed' = proposed /\ Chain' = Chain)]_vars

(***************************************************************************)
(* The reputation computation and the Interaction log.                     *)
(***************************************************************************)
\* every Interaction of the log has counts that are not negative
WellFormedLog(log) ==
    \A i \in 1 .. Len(log) : log[i].PosEvents >= 0 /\ log[i].NegEvents >= 0

\* x is a number of the interval [0, 1]
InUnitInterval(x) == Finite(x) /\ ~RLess(x, Zero) /\ ~RLess(One, x)

\* C15: over a log of well-formed Interactions, the reputation of a target
\* with no inbound Interaction is exactly 0.5 and the reputation of a target
\* with an inbound Interaction lies in [0, 1]
ReputationRange ==
    (lastManagerCall.op = "compute" /\ WellFormedLog(lastManagerCall.log)) =>
        IF lastManagerCall.target \notin Targets(lastManagerCall.log)
        THEN lastManagerCall.result = Rat(1, 2)
        ELSE InUnitInterval(lastManagerCall.result)

\* T + D + I = 1 with each component in [0, 1]
Normalised(o) ==
    /\ RAdd(RAdd(o.T, o.D), o.I) = One
    /\ InUnitInterval(o.T)
    /\ InUnitInterval(o.D)
    /\ InUnitInterval(o.I)

\* every direct opinion of the last ComputeReputation is normalised
DirectOpinionsNormalised ==
    \A to \in DOMAIN lastManagerCall.direct :
        \A from \in DOMAIN lastManagerCall.direct[to] :
            Normalised(lastManagerCall.direct[to][from])

InteriorTheta(cfg) == RLess(Zero, cfg.Mu) /\ RLess(cfg.Mu, Float64(2))

IngressRejection ==
    (/\ lastManagerCall.op = "add"
     /\ lastManagerCall.inter.PosEvents < 0 \/ lastManagerCall.inter.NegEvents < 0)
        => interactions[LogOwner] = lastManagerCall.log


(***************************************************************************)
(* The claims about the empty pool, the appends and the phases.            *)
(***************************************************************************)
\* C21: GetTopKTransactions on an empty pool returns nothing and leaves the
\* pool empty, and a ProposeEmergencyBlock on an empty pool sends no message
\* and changes neither the pool, nor the chain, nor a vote table
EmptyMempoolSkips ==
    /\ []((lastDrain.op = "drain" /\ Len(lastDrain.before) = 0) =>
             (Len(lastDrain.result) = 0 /\ Len(lastDrain.after) = 0))
    /\ [][(lastDrain'.op = "propose" /\ lastDrain' # lastDrain /\ Len(TxPool) = 0) =>
             /\ msgs' = msgs
             /\ Len(TxPool') = 0
             /\ Chain' = Chain
             /\ voteVars' = voteVars
             /\ proposed' = proposed]_vars

\* C21 happens: the proposer of the committee has proposed on an empty pool
ProposedOnEmptyPool ==
    /\ lastDrain.op = "propose"
    /\ Len(lastDrain.before) = 0
    /\ GetSize(Validators) > 0
    /\ lastDrain.en = SelectProposer(Validators)
    /\ IsValidator[lastDrain.en]


\* C22: at most one append per node and hash: a node that appends the block
\* of a Commit delivered to it has not appended a block of that hash before
AtMostOnceAppend ==
    [][\A en \in VehicleIDs : \A m \in DeliveredTo(en, "Commit") :
          Chain' # Chain => \A b \in appendedBy[en] : b.Hash # m.Block.Hash]_vars


\* node en has passed the phase for hash h
HasPassed(en, phase, h) ==
    \E e \in phases[en] : e.phase = phase /\ e.hash = h

\* C23: phase order: a committee member that has broadcast a Commit for a
\* hash has before that handled the announcement of the hash, verified the
\* block and broadcast its Prepare, and a member that has appended a block has
\* before that broadcast its Commit for the hash of the block
PhaseOrder ==
    \A en \in VehicleIDs :
        IsValidator[en] =>
            /\ \A e \in phases[en] :
                  e.phase = "CommittedSent" => HasPassed(en, "EndorsedSent", e.hash)
            /\ \A b \in appendedBy[en] : HasPassed(en, "CommittedSent", b.Hash)


\* the phases "EndorsedSent" of node en
Endorsements(en) == {e \in phases[en] : e.phase = "EndorsedSent"}

\* C24: one endorsement per height: the blocks of one index for which an
\* honest committee member has broadcast a Prepare have one hash
OneEndorsementPerHeight ==
    \A en \in HonestMembers :
        \A a \in Endorsements(en), b \in Endorsements(en) :
            a.block.Index = b.block.Index => a.hash = b.hash


\* C26: only the proposer announces: every announcement for which an honest
\* committee member has broadcast a Prepare was sent by the proposer of the
\* committee
OnlyProposerAnnounces ==
    \A en \in HonestMembers :
        \A e \in Endorsements(en) : e.from = SelectProposer(Validators)


\* C25: the committed block matches its votes: the block a node appends on
\* the delivery of a Commit for hash h has hash h and has passed VerifyBlock
\* in the handlePrePrepare of a node
CommittedBlockMatchesVotes ==
    [][\A en \in VehicleIDs : \A m \in DeliveredTo(en, "Commit") :
          Chain' # Chain =>
             /\ Chain'[Len(Chain')].Hash = m.BlockHash
             /\ \E n \in VehicleIDs : \E e \in Endorsements(n) :
                   e.block = Chain'[Len(Chain')]]_vars


\* the nodes outside the committee that run the code
HonestOutsiders == {n \in VehicleIDs : Running(n) /\ ~IsValidator[n]}

\* the blocks the honest committee members have appended
CommittedByMembers == UNION {appendedBy[n] : n \in HonestMembers}

\* C27: the Commit reaches every node: once an honest committee member has
\* appended a block, every honest node outside the committee eventually has
\* tallied the Commits for it and appended it too
CommitReachesEveryNode ==
    (/\ pc # "refresh"
     /\ CommittedByMembers # {}) ~>
        (\A n \in HonestOutsiders : CommittedByMembers \subseteq appendedBy[n])


\* the places of the transactions of a chain: block i, transaction j
Places(chain) ==
    {p \in (1 .. Len(chain)) \X (1 .. BlockSize) : p[2] <= Len(chain[p[1]].Transactions)}

\* C29: no transaction is committed twice: no transaction id occurs at two
\* places of the chain, neither in one block nor in two blocks
NoTransactionTwice ==
    \A p \in Places(Chain), q \in Places(Chain) :
        Chain[p[1]].Transactions[p[2]].ID = Chain[q[1]].Transactions[q[2]].ID => p = q


\* a proposed block can still commit only while a message for its hash waits
\* for a node that handles its messages (the nodes that do not run are silent)
CanStillCommit(b) ==
    \E m \in BagToSet(msgs) : m.BlockHash = b.Hash /\ Running(m.To)

\* C30: no transaction is lost: a transaction leaves the pool only into a
\* proposed block, and every transaction of a proposed block is in the pool,
\* in a block of the chain, or in a proposed block that can still commit
NoTransactionLost ==
    \A b \in proposed : \A i \in 1 .. Len(b.Transactions) :
        \/ \E j \in 1 .. Len(TxPool) : TxPool[j].ID = b.Transactions[i].ID
        \/ \E p \in Places(Chain) :
              Chain[p[1]].Transactions[p[2]].ID = b.Transactions[i].ID
        \/ \E c \in proposed :
              /\ \E j \in 1 .. Len(c.Transactions) :
                    c.Transactions[j].ID = b.Transactions[i].ID
              /\ CanStillCommit(c)


\* C28: serialised access: no two calls that hold a mutex are inside the
\* same object (a chain, a vote table, an interaction log) at the same time
SerialisedAccess ==
    \A n1 \in VehicleIDs, n2 \in VehicleIDs :
        n1 # n2 => Accesses(n1) \cap Accesses(n2) = {}


(***************************************************************************)
(* The claims about the vote tables, the announcements and the proposals.  *)
(***************************************************************************)
\* C31: a vote is counted once: a Prepare (a Commit) of a sender that is
\* already in the voter set of the hash at the node leaves that set as it is
VoteIdempotence ==
    [][\A en \in VehicleIDs :
          /\ \A m \in DeliveredTo(en, "Prepare") :
                m.From \in MapGet(prepareVotes[en], m.BlockHash, {}) =>
                   MapGet(prepareVotes'[en], m.BlockHash, {})
                      = MapGet(prepareVotes[en], m.BlockHash, {})
          /\ \A m \in DeliveredTo(en, "Commit") :
                m.From \in MapGet(commitVotes[en], m.BlockHash, {}) =>
                   MapGet(commitVotes'[en], m.BlockHash, {})
                      = MapGet(commitVotes[en], m.BlockHash, {})]_vars

\* C31 happens: a member has handled the same Prepare of a sender twice and
\* the sender is in the voter set, which holds another voter too
VoteDeliveredTwice ==
    \E m \in BagToSet(sent) :
        /\ m.Type = "Prepare"
        /\ CopiesIn(m, sent) >= 2
        /\ m.From \in MapGet(prepareVotes[m.To], m.BlockHash, {})
        /\ Cardinality(MapGet(prepareVotes[m.To], m.BlockHash, {})) >= 2


\* the block hashes node en has an entry for in one of its three tables
KnownHashes(en) ==
    DOMAIN prePrepareReceived[en] \cup DOMAIN prepareVotes[en] \cup DOMAIN commitVotes[en]

\* in a step: the hashes of the Commits that made node en append a block
AppendedHashes(en) ==
    {m.BlockHash : m \in {x \in DeliveredTo(en, "Commit") : Chain' # Chain}}

OutsiderIgnoresAnnounce ==
    [][\A en \in VehicleIDs : \A m \in DeliveredTo(en, "PrePrepare") :
          ~IsValidator[en] =>
             /\ Chain' = Chain
             /\ prePrepareReceived'[en] = prePrepareReceived[en]
             /\ prepareVotes'[en] = prepareVotes[en]
             /\ commitVotes'[en] = commitVotes[en]
             /\ \A x \in BagToSet(msgs') :
                   x.From = en => CopiesIn(x, msgs') <= CopiesIn(x, msgs)]_vars

\* C33 happens: while there is a committee, a node outside it has handled
\* the PrePrepare of a block that passes VerifyBlock
AnnouncedToOutsider ==
    /\ GetSize(Validators) > 0
    /\ \E m \in BagToSet(sent) :
          /\ m.Type = "PrePrepare"
          /\ Running(m.To)
          /\ ~IsValidator[m.To]
          /\ VerifyBlock(Chain, m.Block)


\* C34: the evaluator is not the subject: no Interaction in the log of a
\* manager has the same node as From and as To
EvaluatorDiffersFromSubject ==
    \A en \in VehicleIDs : \A i \in 1 .. Len(interactions[en]) :
        interactions[en][i].From # interactions[en][i].To


\* the sum of the urgencies of the first n transactions
RECURSIVE SumOfUrgencies(_, _)
SumOfUrgencies(txs, n) ==
    IF n = 0 THEN 0 ELSE SumOfUrgencies(txs, n - 1) + txs[n].UrgencyDegree

CommitteeWithoutDuplicates ==
    \A i, j \in 1 .. Len(Validators) :
        Validators[i].ID = Validators[j].ID => i = j


(***************************************************************************)
(* The claims about the reputation manager.                                *)
(***************************************************************************)
\* the Interactions of a pair in a log, by their place
PairPlaces(log, to, from) == {i \in 1 .. Len(log) : log[i].To = to /\ log[i].From = from}

\* C37: the aggregation by pair: aggregateByPair returns one record for
\* every pair of the log and for no other pair; its event counts are the sums
\* over the Interactions of the pair, and its timestamp and trajectories are
\* those of an Interaction of the pair that no other is later than; the call
\* leaves the log as it is
PairAggregation ==
    /\ [](lastManagerCall.op = "aggregate" =>
            LET log == lastManagerCall.log
                agg == lastManagerCall.agg
            IN  /\ DOMAIN agg = {log[i].To : i \in 1 .. Len(log)}
                /\ \A to \in DOMAIN agg :
                      /\ DOMAIN agg[to] = {log[i].From : i \in {j \in 1 .. Len(log) :
                                                                 log[j].To = to}}
                      /\ \A from \in DOMAIN agg[to] :
                            LET idx == PairPlaces(log, to, from)
                                rec == agg[to][from]
                            IN  /\ rec.To = to
                                /\ rec.From = from
                                /\ rec.PosEvents = SumOfField(log, idx, "PosEvents")
                                /\ rec.NegEvents = SumOfField(log, idx, "NegEvents")
                                /\ \E i \in idx :
                                      /\ \A j \in idx : log[j].Timestamp <= log[i].Timestamp
                                      /\ rec.Timestamp = log[i].Timestamp
                                      /\ rec.TrajUser = log[i].TrajUser
                                      /\ rec.TrajProvider = log[i].TrajProvider)
    /\ [][lastManagerCall'.op = "aggregate" => interactions' = interactions]_vars

\* C37 happens: a log holds two Interactions of one pair, the later one in
\* the log older and with other trajectories, and has been aggregated
OlderInteractionAggregated ==
    /\ lastManagerCall.op = "aggregate"
    /\ LET log == lastManagerCall.log
       IN  /\ Len(log) = 2
           /\ log[1].To = log[2].To
           /\ log[1].From = log[2].From
           /\ log[2].Timestamp < log[1].Timestamp
           /\ log[2].TrajUser # log[1].TrajUser
           /\ log[2].TrajProvider # log[1].TrajProvider


\* the direct opinion of evaluator u about subject v is in the map
HasOpinion(direct, u, v) == v \in DOMAIN direct /\ u \in DOMAIN direct[v]

\* the nodes that occur in the map of the direct opinions
OpinionNodes(direct) == DOMAIN direct \cup UNION {DOMAIN direct[v] : v \in DOMAIN direct}

\* the simple paths of two edges from u to s along the direct opinions
TwoEdgePaths(direct, u, s) ==
    {<<u, m, s>> : m \in {x \in OpinionNodes(direct) \ {u, s} :
                             HasOpinion(direct, u, x) /\ HasOpinion(direct, x, s)}}

\* C38: the paths of the indirect opinions: for a target s and a source u
\* other than s, the paths computeIndirectOpinions discounts are the simple
\* paths from u to s that have two edges; a path of one edge is not among them
IndirectPathEnumeration ==
    lastManagerCall.op = "compute" =>
        LET direct == lastManagerCall.direct
        IN  \A s \in DOMAIN direct : \A u \in OpinionNodes(direct) \ {s} :
                /\ \A p \in Paths(direct, u, s) : Len(p) = 3
                /\ Paths(direct, u, s) = TwoEdgePaths(direct, u, s)

\* C39: the paths follow the opinions that exist: for every edge of a path
\* that computeIndirectOpinions discounts, the direct opinion that the
\* discount reads, the one of the node before the edge about the node after
\* it, is in the map
IndirectPathsFollowOpinions ==
    lastManagerCall.op = "compute" =>
        LET direct == lastManagerCall.direct
        IN  \A s \in DOMAIN direct : \A u \in DOMAIN direct \ {s} :
                \A p \in Paths(direct, u, s) : \A i \in 1 .. Len(p) - 1 :
                    HasOpinion(direct, p[i], p[i + 1])


\* the weighted mean of the direct opinions about a target, zero when the
\* weights add up to nothing
DirectAggregate(dir) ==
    LET sumW == RSum([e \in DOMAIN dir |-> dir[e].Weight], DOMAIN dir)
        mean(field) ==
            IF RLess(Zero, sumW)
            THEN RDiv(RSum([e \in DOMAIN dir |-> RMul(dir[e][field], dir[e].Weight)],
                           DOMAIN dir), sumW)
            ELSE Zero
    IN  [T |-> mean("T"), D |-> mean("D"), I |-> mean("I")]

\* k = I_d * I_i + T_i * I_d + D_i * I_d, the indirect aggregate being the
\* mean over the sources
FusionDenominator(dir, ind) ==
    LET d == DirectAggregate(dir)
        len == Float64(Cardinality(DOMAIN ind))
        mean(field) == RDiv(RSum([x \in DOMAIN ind |-> ind[x][field]], DOMAIN ind), len)
    IN  RAdd(RAdd(RMul(d.I, mean("I")), RMul(mean("T"), d.I)), RMul(mean("D"), d.I))

\* C40: the fallback of the fusion: for a well-formed log and a target of
\* the log, the fused opinion is the direct aggregate when there is no
\* indirect source and when the denominator k is 0, and the reputation is a
\* number
FusionFallback ==
    (/\ lastManagerCall.op = "compute"
     /\ WellFormedLog(lastManagerCall.log)
     /\ lastManagerCall.target \in Targets(lastManagerCall.log)) =>
        LET direct == lastManagerCall.direct
            dir == direct[lastManagerCall.target]
            ind == ComputeIndirectOpinions(direct)[lastManagerCall.target]
            fused == FuseOpinions(dir, ind)
        IN  /\ DOMAIN ind = {} => fused = DirectAggregate(dir)
            /\ (DOMAIN ind # {} /\ FusionDenominator(dir, ind) = Zero) =>
                  fused = DirectAggregate(dir)
            /\ Finite(lastManagerCall.result)

====
